---- MODULE Spec2Model ----
(***************************************************************************)
(* A model of the registry wrapper of src/src/lib.rs: RegKey (a handle to  *)
(* an open key), its value and structural operations, the two iterators    *)
(* EnumKeys and EnumValues, and the store behind the advapi32 calls.        *)
(*                                                                         *)
(* A byte string is a record [len, seed]: the first len bytes of the       *)
(* content named seed (seed 0 is the empty content), so that the program's *)
(* buffer sizes keep their real values.  An HKEY is its 32-bit pattern     *)
(* read as a signed number; pointers are compared unsigned (PtrGe).        *)
(***************************************************************************)
EXTENDS Integers, Sequences, FiniteSets, TLC

\* ------------------------------------------------------------ bounds
MaxObjs == 2
MaxHandles == 2
MaxLen == 6000
MaxSeed == 1

\* ------------------------------------------------- program constants
ERROR_SUCCESS == 0
ERROR_FILE_NOT_FOUND == 2
ERROR_ACCESS_DENIED == 5
ERROR_INVALID_HANDLE == 6
ERROR_INVALID_BLOCK == 9
ERROR_BAD_FILE_TYPE == 222
ERROR_MORE_DATA == 234
ERROR_NO_MORE_ITEMS == 259
ERROR_KEY_DELETED == 1018

REG_SZ == 1
REG_EXPAND_SZ == 2
REG_BINARY == 3
REG_DWORD == 4
REG_LINK == 6
REG_MULTI_SZ == 7
REG_QWORD == 11
REG_CREATED_NEW_KEY == 1
REG_OPENED_EXISTING_KEY == 2

\* buf_len of get_raw_value and of EnumValues::next, in bytes
InitBufLen == 2048
\* name_len of EnumKeys::next and EnumValues::next, in UTF-16 units
NameBufLen == 2048

\* The predefined roots: (HKEY)(LONG)0x80000000 and following.
HKEY_CLASSES_ROOT == -2147483647 - 1
HKEY_CURRENT_USER == HKEY_CLASSES_ROOT + 1
HKEY_LOCAL_MACHINE == HKEY_CLASSES_ROOT + 2
HKEY_USERS == HKEY_CLASSES_ROOT + 3
HKEY_PERFORMANCE_DATA == HKEY_CLASSES_ROOT + 4
HKEY_CURRENT_CONFIG == HKEY_CLASSES_ROOT + 5
HKEY_DYN_DATA == HKEY_CLASSES_ROOT + 6
HKEY_CURRENT_USER_LOCAL_SETTINGS == HKEY_CLASSES_ROOT + 7
HKEY_PERFORMANCE_TEXT == HKEY_CLASSES_ROOT + 80
HKEY_PERFORMANCE_NLSTEXT == HKEY_CLASSES_ROOT + 96

PredefRoots ==
  { HKEY_CLASSES_ROOT, HKEY_CURRENT_USER, HKEY_LOCAL_MACHINE, HKEY_USERS,
    HKEY_PERFORMANCE_DATA, HKEY_PERFORMANCE_TEXT, HKEY_PERFORMANCE_NLSTEXT,
    HKEY_CURRENT_CONFIG, HKEY_DYN_DATA, HKEY_CURRENT_USER_LOCAL_SETTINGS }

\* a >= b on two pointers: unsigned comparison of the 32-bit patterns
PtrGe(a, b) == IF (a < 0) = (b < 0) THEN a >= b ELSE a < 0

\* ------------------------------------------------------ input domains
ObjIds == 1..MaxObjs
\* handle values the store hands out (high bit clear)
HandlePool == 1..MaxHandles
KeyNames == {"a", "b"}
\* value names; "" is the default value
ValueNames == {"", "v"}
\* the length of a name in UTF-16 units
NameChars(n) == IF n = "" THEN 0 ELSE 1
\* the byte strings written: the lengths around the buffer size, each content
Lens == {InitBufLen, InitBufLen + 1, MaxLen}
Bytes == {[len |-> InitBufLen, seed |-> sd] : sd \in 1..MaxSeed}
           \cup {[len |-> l, seed |-> 1] : l \in Lens}
\* RegType, of which the callers write these two
RegTypes == {REG_BINARY, REG_QWORD}
RegValues == {[vtype |-> t, bytes |-> b] : t \in RegTypes, b \in Bytes}
\* what another actor writes: a tag past REG_QWORD, on bytes that fit the buffer
OtherValues == {[vtype |-> REG_QWORD + 1, bytes |-> [len |-> InitBufLen, seed |-> 1]]}

\* the paths the callers pass, and the keys below a root that may come to exist
Paths == {<<>>, <<"a">>, <<"b">>, <<"a", "b">>}
\* the roots the key and value operations are exercised on
WorkRoots == {HKEY_CLASSES_ROOT, HKEY_CURRENT_USER, HKEY_PERFORMANCE_NLSTEXT}

\* --------------------------------------------------------------- state
VARIABLES
  reg,       \* the store: existing key -> [sub: child names, val: values], in enumeration order
  htab,      \* the store's handle table: handle -> [open, node, deleted]
  regkeys,   \* the live RegKey objects: object -> [hkey]
  iters,     \* the live iterators: iterator -> [kind, key, index, ...]
  ret,       \* what the last call returned to its caller
  calls,     \* the store calls the last call made, in order
  panicked,  \* a panic left the calling thread (unwrap on an Err)
  tx         \* the Transaction object and what the store holds staged under it
vars == <<reg, htab, regkeys, iters, ret, calls, panicked, tx>>

\* no Transaction object is alive
NoTransaction == [state |-> "none", view |-> <<>>]
Node(root, path) == [root |-> root, path |-> path]
EmptyKey == [sub |-> <<>>, val |-> <<>>]
ClosedEntry == [open |-> FALSE, node |-> Node(HKEY_CLASSES_ROOT, <<>>), deleted |-> FALSE]

IndexOf(s, x) == CHOOSE i \in 1..Len(s) : s[i] = x
RemoveAt(s, i) == SubSeq(s, 1, i - 1) \o SubSeq(s, i + 1, Len(s))
InsertAt(s, i, x) == SubSeq(s, 1, i - 1) \o <<x>> \o SubSeq(s, i, Len(s))

\* ------------------------------------------------- the store (advapi32)
\* The state of a handle as the store sees it.
HandleErr(h) ==
  IF h \in PredefRoots THEN ERROR_SUCCESS
  ELSE IF h \in HandlePool /\ htab[h].open
       THEN IF htab[h].deleted THEN ERROR_KEY_DELETED ELSE ERROR_SUCCESS
       ELSE ERROR_INVALID_HANDLE
KeyOf(h) == IF h \in PredefRoots THEN Node(h, <<>>) ELSE htab[h].node
FreeHandles == {h \in HandlePool : ~htab[h].open}
Exists(n) == n \in DOMAIN reg
Extend(n, path) == Node(n.root, n.path \o path)
\* Only the current user's hive is writable for this user.
Writable(n) == n.root = HKEY_CURRENT_USER

\* RegOpenKeyExW(hkey, path, 0, perms, &new_hkey): the status and the key opened
RegOpenKeyExW(hkey, path) ==
  IF HandleErr(hkey) # ERROR_SUCCESS THEN [err |-> HandleErr(hkey)]
  ELSE IF ~Exists(Extend(KeyOf(hkey), path)) THEN [err |-> ERROR_FILE_NOT_FOUND]
  ELSE [err |-> ERROR_SUCCESS, node |-> Extend(KeyOf(hkey), path)]

\* RegCreateKeyExW(hkey, path, ..., &new_hkey, &disp): status, key and disposition
RegCreateKeyExW(hkey, path) ==
  IF HandleErr(hkey) # ERROR_SUCCESS THEN [err |-> HandleErr(hkey)]
  ELSE LET n == Extend(KeyOf(hkey), path)
       IN IF Exists(n)
          THEN [err |-> ERROR_SUCCESS, node |-> n, disp |-> REG_OPENED_EXISTING_KEY]
          ELSE IF ~Writable(n) THEN [err |-> ERROR_ACCESS_DENIED]
          ELSE [err |-> ERROR_SUCCESS, node |-> n, disp |-> REG_CREATED_NEW_KEY]

\* The keys RegCreateKeyExW adds for node n: n and its missing ancestors.
MissingPrefixes(n) ==
  {Node(n.root, SubSeq(n.path, 1, k)) : k \in 1..Len(n.path)} \ DOMAIN reg
Parent(n) == Node(n.root, SubSeq(n.path, 1, Len(n.path) - 1))
Last(n) == n.path[Len(n.path)]

\* The store after adding the keys `new` (each below an existing or a new key);
\* `pos` gives, per parent, where the new child enters the enumeration order.
RegWithKeys(new, pos) ==
  [n \in DOMAIN reg \cup new |->
     IF n \in new THEN
       [sub |-> IF \E c \in new : Parent(c) = n
                THEN <<Last(CHOOSE c \in new : Parent(c) = n)>> ELSE <<>>,
        val |-> <<>>]
     ELSE IF \E c \in new : Parent(c) = n
          THEN [reg[n] EXCEPT !.sub =
                  InsertAt(@, pos, Last(CHOOSE c \in new : Parent(c) = n))]
          ELSE reg[n]]

\* The keys at and below n.
Descendants(n) ==
  {m \in DOMAIN reg : /\ m.root = n.root
                      /\ Len(m.path) >= Len(n.path)
                      /\ SubSeq(m.path, 1, Len(n.path)) = n.path}
\* RegDeleteKeyW(hkey, path): the status.  The key must have no subkeys; an
\* empty path names the key of hkey itself; a predefined root is never deleted.
RegDeleteKeyW(hkey, path) ==
  IF HandleErr(hkey) # ERROR_SUCCESS THEN HandleErr(hkey)
  ELSE LET n == Extend(KeyOf(hkey), path)
       IN IF ~Exists(n) THEN ERROR_FILE_NOT_FOUND
          ELSE IF ~Writable(n) \/ n.path = <<>> THEN ERROR_ACCESS_DENIED
          ELSE IF reg[n].sub # <<>> THEN ERROR_ACCESS_DENIED
          ELSE ERROR_SUCCESS
\* RegDeleteTreeW(hkey, path): the status.  An empty path names the key of
\* hkey itself.
RegDeleteTreeW(hkey, path) ==
  IF HandleErr(hkey) # ERROR_SUCCESS THEN HandleErr(hkey)
  ELSE LET n == Extend(KeyOf(hkey), path)
       IN IF ~Exists(n) THEN ERROR_FILE_NOT_FOUND
          ELSE IF ~Writable(n) \/ n.path = <<>> THEN ERROR_ACCESS_DENIED
          ELSE ERROR_SUCCESS
\* The store without the keys `gone` (a set closed under descendants), and its
\* handle table: the handles open on those keys go stale.
RegWithout(gone) ==
  [m \in DOMAIN reg \ gone |->
     [reg[m] EXCEPT !.sub = SelectSeq(@, LAMBDA c : Extend(m, <<c>>) \notin gone)]]
HtabWithout(gone) ==
  [h \in HandlePool |->
     IF htab[h].open /\ htab[h].node \in gone THEN [htab[h] EXCEPT !.deleted = TRUE]
     ELSE htab[h]]

\* RegCloseKey(hkey): the status
RegCloseKey(hkey) ==
  IF hkey \in PredefRoots \/ (hkey \in HandlePool /\ htab[hkey].open)
  THEN ERROR_SUCCESS ELSE ERROR_INVALID_HANDLE
\* The handle table after the store calls cs.
RECURSIVE HtabAfter(_, _)
HtabAfter(ht, cs) ==
  IF cs = <<>> THEN ht
  ELSE LET c == Head(cs)
       IN HtabAfter(IF c.fn = "RegCloseKey" /\ c.hkey \in HandlePool
                    THEN [ht EXCEPT ![c.hkey] = ClosedEntry] ELSE ht,
                    Tail(cs))

\* ------------------------------------------------------------- RegKey
\* close_ with the guard comparing the handles as signed numbers
close_signed(hkey) ==
  IF hkey >= HKEY_CLASSES_ROOT
  THEN [calls |-> <<>>, err |-> ERROR_SUCCESS]
  ELSE [calls |-> <<[fn |-> "RegCloseKey", hkey |-> hkey, err |-> RegCloseKey(hkey)]>>,
        err |-> RegCloseKey(hkey)]
\* close_ with the guard hkey > HKEY_CLASSES_ROOT
close_strict(hkey) ==
  IF PtrGe(hkey, HKEY_CLASSES_ROOT) /\ hkey # HKEY_CLASSES_ROOT
  THEN [calls |-> <<>>, err |-> ERROR_SUCCESS]
  ELSE [calls |-> <<[fn |-> "RegCloseKey", hkey |-> hkey, err |-> RegCloseKey(hkey)]>>,
        err |-> RegCloseKey(hkey)]
\* RegKey::close_: the store calls it makes and its result
close_(hkey) ==
  IF PtrGe(hkey, HKEY_CLASSES_ROOT)
  THEN [calls |-> <<>>, err |-> ERROR_SUCCESS]
  ELSE [calls |-> <<[fn |-> "RegCloseKey", hkey |-> hkey, err |-> RegCloseKey(hkey)]>>,
        err |-> RegCloseKey(hkey)]

\* RegKey{ hkey }; `closed` is kept for the properties only: close_ ran on it
NewKey(hkey) == [hkey |-> hkey, closed |-> FALSE]
FreeObjs == ObjIds \ DOMAIN regkeys
NewObj == CHOOSE o \in FreeObjs : \A p \in FreeObjs : o <= p
Without(f, x) == [y \in DOMAIN f \ {x} |-> f[y]]

\* The iterators after the values (kind "values") or the children (kind "keys")
\* of the keys ns changed: they no longer run over an unchanged key.
Touch(ns, kind) ==
  [i \in DOMAIN iters |->
     IF iters[i].kind = kind /\ HandleErr(regkeys[iters[i].key].hkey) # ERROR_INVALID_HANDLE
          /\ KeyOf(regkeys[iters[i].key].hkey) \in ns
     THEN [iters[i] EXCEPT !.clean = FALSE] ELSE iters[i]]

\* RegKey::predef(hkey)
predef(hkey) ==
  /\ ~panicked
  /\ FreeObjs # {}
  /\ regkeys' = regkeys @@ (NewObj :> NewKey(hkey))
  /\ ret' = [op |-> "predef", err |-> ERROR_SUCCESS, obj |-> NewObj, hkey |-> hkey]
  /\ calls' = <<>>
  /\ UNCHANGED <<reg, htab, iters, panicked>>
  /\ UNCHANGED tx

\* Ok(RegKey{ hkey: new_hkey }) with the RegKey of the caller for an empty path
OpenResult_alias(self_hkey, path, new_hkey) ==
  IF path = <<>> THEN NewKey(self_hkey) ELSE NewKey(new_hkey)
\* Ok(RegKey{ hkey: new_hkey }): the RegKey that open_subkey_with_flags returns
OpenResult(self_hkey, path, new_hkey) == NewKey(new_hkey)

\* open_subkey_with_flags that opens through RegCreateKeyExW, which makes the
\* keys of the path that are missing
open_subkey_with_flags_creating(o, path) ==
  /\ ~panicked
  /\ o \in DOMAIN regkeys
  /\ FreeObjs # {}
  /\ LET r == RegCreateKeyExW(regkeys[o].hkey, path)
     IN /\ calls' = <<[fn |-> "RegCreateKeyExW", hkey |-> regkeys[o].hkey, err |-> r.err]>>
        /\ IF r.err = ERROR_SUCCESS
           THEN /\ r.node.path \in Paths
                /\ \E nh \in FreeHandles :
                     /\ htab' = [htab EXCEPT ![nh] =
                                   [open |-> TRUE, node |-> r.node, deleted |-> FALSE]]
                     /\ regkeys' = regkeys @@ (NewObj :> NewKey(nh))
                     /\ ret' = [op |-> "open_subkey", err |-> ERROR_SUCCESS,
                                obj |-> NewObj, hkey |-> nh, from |-> o, path |-> path]
                /\ reg' = RegWithKeys(MissingPrefixes(r.node), 1)
                /\ iters' = Touch({Parent(n) : n \in MissingPrefixes(r.node)}, "keys")
           ELSE /\ ret' = [op |-> "open_subkey", err |-> r.err, from |-> o, path |-> path]
                /\ UNCHANGED <<htab, regkeys, reg, iters>>
  /\ UNCHANGED panicked
  /\ UNCHANGED tx
\* open_subkey_with_flags that returns the RegKey around new_hkey whatever the
\* status of RegOpenKeyExW is
open_subkey_with_flags_unchecked(o, path) ==
  /\ ~panicked
  /\ o \in DOMAIN regkeys
  /\ FreeObjs # {}
  /\ LET r == RegOpenKeyExW(regkeys[o].hkey, path)
     IN /\ calls' = <<[fn |-> "RegOpenKeyExW", hkey |-> regkeys[o].hkey, err |-> r.err]>>
        /\ \E nh \in FreeHandles :
             /\ htab' = [htab EXCEPT ![nh] =
                           [open |-> TRUE,
                            node |-> IF r.err = ERROR_SUCCESS THEN r.node
                                     ELSE KeyOf(regkeys[o].hkey),
                            deleted |-> FALSE]]
             /\ regkeys' = regkeys @@ (NewObj :> OpenResult(regkeys[o].hkey, path, nh))
             /\ ret' = [op |-> "open_subkey", err |-> r.err, obj |-> NewObj,
                        hkey |-> nh, from |-> o, path |-> path]
  /\ UNCHANGED <<reg, iters, panicked>>
  /\ UNCHANGED tx
\* RegKey::open_subkey_with_flags(path, perms), also behind open_subkey
open_subkey_with_flags(o, path) ==
  /\ ~panicked
  /\ o \in DOMAIN regkeys
  /\ FreeObjs # {}
  /\ LET r == RegOpenKeyExW(regkeys[o].hkey, path)
     IN /\ calls' = <<[fn |-> "RegOpenKeyExW", hkey |-> regkeys[o].hkey, err |-> r.err]>>
        /\ IF r.err = ERROR_SUCCESS
           THEN \E nh \in FreeHandles :
                  /\ htab' = [htab EXCEPT ![nh] =
                                [open |-> TRUE, node |-> r.node, deleted |-> FALSE]]
                  /\ regkeys' = regkeys @@ (NewObj :> OpenResult(regkeys[o].hkey, path, nh))
                  /\ ret' = [op |-> "open_subkey", err |-> ERROR_SUCCESS,
                             obj |-> NewObj,
                             hkey |-> OpenResult(regkeys[o].hkey, path, nh).hkey,
                             from |-> o, path |-> path]
           ELSE /\ ret' = [op |-> "open_subkey", err |-> r.err, from |-> o, path |-> path]
                /\ UNCHANGED <<htab, regkeys>>
  /\ UNCHANGED <<reg, iters, panicked>>
  /\ UNCHANGED tx

\* What create_subkey_with_flags hands back of the disposition the store wrote
\* to its local `disp`: nothing; the result is the RegKey alone.
CreateResult(obj, nh, disp) ==
  [op |-> "create_subkey", err |-> ERROR_SUCCESS, obj |-> obj, hkey |-> nh]

\* RegKey::create_subkey_with_flags(path, perms), also behind create_subkey
create_subkey_with_flags(o, path) ==
  /\ ~panicked
  /\ o \in DOMAIN regkeys
  /\ FreeObjs # {}
  /\ LET r == RegCreateKeyExW(regkeys[o].hkey, path)
     IN /\ calls' = <<[fn |-> "RegCreateKeyExW", hkey |-> regkeys[o].hkey, err |-> r.err,
                        disp |-> IF r.err = ERROR_SUCCESS THEN r.disp ELSE 0]>>
        /\ IF r.err = ERROR_SUCCESS
           THEN /\ r.node.path \in Paths
                /\ \E nh \in FreeHandles :
                     /\ htab' = [htab EXCEPT ![nh] =
                                   [open |-> TRUE, node |-> r.node, deleted |-> FALSE]]
                     /\ regkeys' = regkeys @@ (NewObj :> NewKey(nh))
                     /\ ret' = CreateResult(NewObj, nh, r.disp)
                /\ \E pos \in 1..(Cardinality(KeyNames)) :
                     /\ MissingPrefixes(r.node) # {} =>
                          pos <= 1 + Len(reg[Parent(CHOOSE n \in MissingPrefixes(r.node) :
                                        Parent(n) \in DOMAIN reg)].sub)
                     /\ MissingPrefixes(r.node) = {} => pos = 1
                     /\ reg' = RegWithKeys(MissingPrefixes(r.node), pos)
                /\ iters' = Touch({Parent(n) : n \in MissingPrefixes(r.node)}, "keys")
           ELSE /\ ret' = [op |-> "create_subkey", err |-> r.err]
                /\ UNCHANGED <<htab, regkeys, reg, iters>>
  /\ UNCHANGED panicked
  /\ UNCHANGED tx

\* Drop for RegKey: close_().unwrap()
drop(o) ==
  /\ ~panicked
  /\ o \in DOMAIN regkeys
  /\ \A i \in DOMAIN iters : iters[i].key # o
  /\ LET c == close_(regkeys[o].hkey)
     IN /\ calls' = c.calls
        /\ htab' = HtabAfter(htab, c.calls)
        /\ panicked' = (c.err # ERROR_SUCCESS)
        /\ ret' = [op |-> "drop", err |-> c.err, obj |-> o, hkey |-> regkeys[o].hkey,
                   again |-> regkeys[o].closed,
                   node |-> IF HandleErr(regkeys[o].hkey) = ERROR_INVALID_HANDLE
                            THEN ClosedEntry.node ELSE KeyOf(regkeys[o].hkey)]
  /\ regkeys' = Without(regkeys, o)
  /\ UNCHANGED <<reg, iters>>
  /\ UNCHANGED tx

\* self.close_() on a live RegKey, from code of the crate (close_ is private)
close_call(o) ==
  /\ ~panicked
  /\ o \in DOMAIN regkeys
  /\ LET c == close_(regkeys[o].hkey)
     IN /\ calls' = c.calls
        /\ htab' = HtabAfter(htab, c.calls)
        /\ ret' = [op |-> "close_", err |-> c.err, obj |-> o, hkey |-> regkeys[o].hkey,
                   again |-> regkeys[o].closed]
  /\ regkeys' = [regkeys EXCEPT ![o].closed = TRUE]
  /\ UNCHANGED <<reg, iters, panicked>>
  /\ UNCHANGED tx

\* delete_subkey with RegDeleteTreeW in the place of RegDeleteKeyW
delete_subkey_store_tree(hkey, path) ==
  [fn |-> "RegDeleteTreeW", err |-> RegDeleteTreeW(hkey, path),
   gone |-> IF RegDeleteTreeW(hkey, path) = ERROR_SUCCESS
            THEN Descendants(Extend(KeyOf(hkey), path)) ELSE {}]
\* The store call of delete_subkey: its status and the keys it removes
delete_subkey_store(hkey, path) ==
  [fn |-> "RegDeleteKeyW", err |-> RegDeleteKeyW(hkey, path),
   gone |-> IF RegDeleteKeyW(hkey, path) = ERROR_SUCCESS
            THEN {Extend(KeyOf(hkey), path)} ELSE {}]

\* delete_subkey_all with RegDeleteKeyW in the place of RegDeleteTreeW
delete_subkey_all_store_leaf(hkey, path) ==
  [fn |-> "RegDeleteKeyW", err |-> RegDeleteKeyW(hkey, path),
   gone |-> IF RegDeleteKeyW(hkey, path) = ERROR_SUCCESS
            THEN {Extend(KeyOf(hkey), path)} ELSE {}]
\* The store call of delete_subkey_all: its status and the keys it removes
delete_subkey_all_store(hkey, path) ==
  [fn |-> "RegDeleteTreeW", err |-> RegDeleteTreeW(hkey, path),
   gone |-> IF RegDeleteTreeW(hkey, path) = ERROR_SUCCESS
            THEN Descendants(Extend(KeyOf(hkey), path)) ELSE {}]

\* RegKey::delete_subkey(path)
delete_subkey(o, path) ==
  /\ ~panicked
  /\ o \in DOMAIN regkeys
  /\ LET hkey == regkeys[o].hkey
         d == delete_subkey_store(hkey, path)
     IN /\ calls' = <<[fn |-> d.fn, hkey |-> hkey, err |-> d.err]>>
        /\ ret' = [op |-> "delete_subkey", obj |-> o, path |-> path, err |-> d.err]
        /\ reg' = RegWithout(d.gone)
        /\ htab' = HtabWithout(d.gone)
        /\ iters' = Touch({Parent(n) : n \in d.gone}, "keys")
  /\ UNCHANGED <<regkeys, panicked>>
  /\ UNCHANGED tx

\* RegKey::delete_subkey_all(path)
delete_subkey_all(o, path) ==
  /\ ~panicked
  /\ o \in DOMAIN regkeys
  /\ LET hkey == regkeys[o].hkey
         d == delete_subkey_all_store(hkey, path)
     IN /\ calls' = <<[fn |-> d.fn, hkey |-> hkey, err |-> d.err]>>
        /\ ret' = [op |-> "delete_subkey_all", obj |-> o, path |-> path, err |-> d.err]
        /\ reg' = RegWithout(d.gone)
        /\ htab' = HtabWithout(d.gone)
        /\ iters' = Touch({Parent(n) : n \in d.gone}, "keys")
  /\ UNCHANGED <<regkeys, panicked>>
  /\ UNCHANGED tx

\* The store invalidates the open handle h under the program: the connection
\* to the registry it was opened on is lost, or foreign code closes the value.
store_invalidate(h) ==
  /\ ~panicked
  /\ h \in HandlePool
  /\ htab[h].open
  /\ htab' = [htab EXCEPT ![h] = ClosedEntry]
  /\ ret' = [op |-> "store_invalidate", err |-> ERROR_SUCCESS]
  /\ calls' = <<>>
  /\ UNCHANGED <<reg, regkeys, iters, panicked>>
  /\ UNCHANGED tx

\* Another actor deletes the childless key n; the handles open on it go stale.
RegWithoutKey(n) ==
  [m \in DOMAIN reg \ {n} |->
     IF m = Parent(n) THEN [reg[m] EXCEPT !.sub = RemoveAt(@, IndexOf(@, Last(n)))]
     ELSE reg[m]]
HtabWithoutKey(n) ==
  [h \in HandlePool |->
     IF htab[h].open /\ htab[h].node = n THEN [htab[h] EXCEPT !.deleted = TRUE]
     ELSE htab[h]]

\* ------------------------------------------------------------- values
\* RegQueryValueExW(hkey, name, NULL, &buf_type, buf, &buf_len) on a buffer of
\* buf_len bytes: the status, and what it writes to buf_type, buf_len and buf
HasValue(n, name) == \E k \in 1..Len(reg[n].val) : reg[n].val[k].name = name
ValueAt(n, name) == reg[n].val[CHOOSE k \in 1..Len(reg[n].val) : reg[n].val[k].name = name]
RegQueryValueExW(hkey, name, buf_len) ==
  IF HandleErr(hkey) # ERROR_SUCCESS THEN [err |-> HandleErr(hkey)]
  ELSE IF ~HasValue(KeyOf(hkey), name) THEN [err |-> ERROR_FILE_NOT_FOUND]
  ELSE LET e == ValueAt(KeyOf(hkey), name)
       IN IF e.bytes.len > buf_len
          THEN [err |-> ERROR_MORE_DATA, buf_type |-> e.vtype, buf_len |-> e.bytes.len]
          ELSE [err |-> ERROR_SUCCESS, buf_type |-> e.vtype, buf_len |-> e.bytes.len,
                buf |-> e.bytes]

\* the largest of a set of lengths, 0 for none
MaxOf(S) == IF S = {} THEN 0 ELSE CHOOSE x \in S : \A y \in S : y <= x
\* RegQueryInfoKeyW(hkey, ...): the status and the six numbers it writes
RegQueryInfoKeyW(hkey) ==
  IF HandleErr(hkey) # ERROR_SUCCESS THEN [err |-> HandleErr(hkey)]
  ELSE LET k == reg[KeyOf(hkey)]
       IN [err |-> ERROR_SUCCESS,
           info |-> [sub_keys |-> Len(k.sub),
                     max_sub_key_len |-> MaxOf({NameChars(k.sub[j]) : j \in 1..Len(k.sub)}),
                     max_class_len |-> 0,
                     values |-> Len(k.val),
                     max_value_name_len |->
                       MaxOf({NameChars(k.val[j].name) : j \in 1..Len(k.val)}),
                     max_value_len |-> MaxOf({k.val[j].bytes.len : j \in 1..Len(k.val)})]]

\* RegSetValueExW(hkey, name, 0, t, bytes, len): the status
RegSetValueExW(hkey, name) ==
  IF HandleErr(hkey) # ERROR_SUCCESS THEN HandleErr(hkey)
  ELSE IF ~Writable(KeyOf(hkey)) THEN ERROR_ACCESS_DENIED
  ELSE ERROR_SUCCESS
\* The store after the value (name, t, bytes) is written to key n: an existing
\* name keeps its place, a new one enters the enumeration order at pos.
RegWithValue(n, name, t, bytes, pos) ==
  LET e == [name |-> name, vtype |-> t, bytes |-> bytes]
  IN [reg EXCEPT ![n].val =
        IF HasValue(n, name)
        THEN [@ EXCEPT ![CHOOSE k \in 1..Len(@) : @[k].name = name] = e]
        ELSE InsertAt(@, pos, e)]

\* RegDeleteValueW(hkey, name): the status
RegDeleteValueW(hkey, name) ==
  IF HandleErr(hkey) # ERROR_SUCCESS THEN HandleErr(hkey)
  ELSE IF ~Writable(KeyOf(hkey)) THEN ERROR_ACCESS_DENIED
  ELSE IF ~HasValue(KeyOf(hkey), name) THEN ERROR_FILE_NOT_FOUND
  ELSE ERROR_SUCCESS

\* RegEnumValueW(hkey, index, name, &name_len, NULL, &buf_type, buf, &buf_len)
RegEnumValueW(hkey, index, name_len, buf_len) ==
  IF HandleErr(hkey) # ERROR_SUCCESS THEN [err |-> HandleErr(hkey)]
  ELSE LET vs == reg[KeyOf(hkey)].val
       IN IF index >= Len(vs) THEN [err |-> ERROR_NO_MORE_ITEMS]
          ELSE LET e == vs[index + 1]
               IN IF NameChars(e.name) + 1 > name_len \/ e.bytes.len > buf_len
                  THEN [err |-> ERROR_MORE_DATA]
                  ELSE [err |-> ERROR_SUCCESS, name |-> e.name, buf_type |-> e.vtype,
                        buf_len |-> e.bytes.len, buf |-> e.bytes]

\* RegEnumKeyExW(hkey, index, name, &name_len, ...)
RegEnumKeyExW(hkey, index, name_len) ==
  IF HandleErr(hkey) # ERROR_SUCCESS THEN [err |-> HandleErr(hkey)]
  ELSE LET ks == reg[KeyOf(hkey)].sub
       IN IF index >= Len(ks) THEN [err |-> ERROR_NO_MORE_ITEMS]
          ELSE IF NameChars(ks[index + 1]) + 1 > name_len THEN [err |-> ERROR_MORE_DATA]
          ELSE [err |-> ERROR_SUCCESS, name |-> ks[index + 1]]

\* buf.set_len(buf_len): the first n bytes of the buffer
Truncate(bytes, n) ==
  IF n >= bytes.len THEN bytes
  ELSE [len |-> n, seed |-> IF n = 0 THEN 0 ELSE bytes.seed]

\* RegKey::query_info()
query_info(o) ==
  /\ ~panicked
  /\ o \in DOMAIN regkeys
  /\ LET r == RegQueryInfoKeyW(regkeys[o].hkey)
     IN /\ calls' = <<[fn |-> "RegQueryInfoKeyW", hkey |-> regkeys[o].hkey, err |-> r.err]>>
        /\ ret' = IF r.err = ERROR_SUCCESS
                  THEN [op |-> "query_info", obj |-> o, err |-> ERROR_SUCCESS, info |-> r.info]
                  ELSE [op |-> "query_info", obj |-> o, err |-> r.err]
  /\ UNCHANGED <<reg, htab, regkeys, iters, panicked>>
  /\ UNCHANGED tx

\* RegKey::get_raw_value: the result for what the store answered (one call, on
\* a buffer of InitBufLen bytes)
get_raw_value_result(r) ==
  IF r.err = ERROR_SUCCESS
  THEN IF r.buf_type > REG_QWORD
       THEN [ok |-> FALSE, err |-> ERROR_BAD_FILE_TYPE]
       ELSE [ok |-> TRUE, err |-> ERROR_SUCCESS,
             val |-> [vtype |-> r.buf_type, bytes |-> Truncate(r.buf, r.buf_len)]]
  ELSE [ok |-> FALSE, err |-> r.err]

\* RegKey::get_raw_value(name)
get_raw_value(o, name) ==
  /\ ~panicked
  /\ o \in DOMAIN regkeys
  /\ LET r == RegQueryValueExW(regkeys[o].hkey, name, InitBufLen)
         g == get_raw_value_result(r)
     IN /\ calls' = <<[fn |-> "RegQueryValueExW", hkey |-> regkeys[o].hkey,
                       buf_len |-> InitBufLen, err |-> r.err]>>
        /\ ret' = [op |-> "get_raw_value", obj |-> o, name |-> name] @@ g
  /\ UNCHANGED <<reg, htab, regkeys, iters, panicked>>
  /\ UNCHANGED tx

\* RegKey::set_raw_value(name, value); pos is where the store files a new name
set_raw_value(o, name, value, pos) ==
  /\ ~panicked
  /\ o \in DOMAIN regkeys
  /\ LET hkey == regkeys[o].hkey
         e == RegSetValueExW(hkey, name)
     IN /\ calls' = <<[fn |-> "RegSetValueExW", hkey |-> hkey, err |-> e]>>
        /\ ret' = [op |-> "set_raw_value", obj |-> o, name |-> name, err |-> e]
        /\ IF e = ERROR_SUCCESS
           THEN /\ pos <= Len(reg[KeyOf(hkey)].val) + 1
                /\ HasValue(KeyOf(hkey), name) => pos = 1
                /\ reg' = RegWithValue(KeyOf(hkey), name, value.vtype, value.bytes, pos)
                /\ iters' = Touch({KeyOf(hkey)}, "values")
           ELSE UNCHANGED <<reg, iters>>
  /\ UNCHANGED <<htab, regkeys, panicked>>
  /\ UNCHANGED tx

\* RegKey::delete_value(name)
delete_value(o, name) ==
  /\ ~panicked
  /\ o \in DOMAIN regkeys
  /\ LET hkey == regkeys[o].hkey
         e == RegDeleteValueW(hkey, name)
     IN /\ calls' = <<[fn |-> "RegDeleteValueW", hkey |-> hkey, err |-> e]>>
        /\ ret' = [op |-> "delete_value", obj |-> o, name |-> name, err |-> e]
        /\ reg' = IF e = ERROR_SUCCESS
                  THEN [reg EXCEPT ![KeyOf(hkey)].val =
                          RemoveAt(@, CHOOSE k \in 1..Len(@) : @[k].name = name)]
                  ELSE reg
        /\ iters' = IF e = ERROR_SUCCESS THEN Touch({KeyOf(hkey)}, "values") ELSE iters
  /\ UNCHANGED <<htab, regkeys, panicked>>
  /\ UNCHANGED tx

\* Another actor of the system writes a value through its own handle to key n;
\* the store takes any 32-bit type tag.
other_set_value(n, name, t, bytes, pos) ==
  /\ ~panicked
  /\ Exists(n)
  /\ pos <= Len(reg[n].val) + 1
  /\ HasValue(n, name) => pos = 1
  /\ reg' = RegWithValue(n, name, t, bytes, pos)
  /\ iters' = Touch({n}, "values")
  /\ ret' = [op |-> "other_set_value", err |-> ERROR_SUCCESS]
  /\ calls' = <<>>
  /\ UNCHANGED <<htab, regkeys, panicked>>
  /\ UNCHANGED tx

\* ---------------------------------------------------------- iterators
\* Another actor deletes the childless key n (not a root).
other_delete_key(n) ==
  /\ ~panicked
  /\ Exists(n)
  /\ n.path # <<>>
  /\ reg[n].sub = <<>>
  /\ reg' = RegWithoutKey(n)
  /\ htab' = HtabWithoutKey(n)
  /\ iters' = Touch({Parent(n)}, "keys")
  /\ ret' = [op |-> "other_delete_key", err |-> ERROR_SUCCESS]
  /\ calls' = <<>>
  /\ UNCHANGED <<regkeys, panicked>>
  /\ UNCHANGED tx

\* Another actor creates the key n below an existing key, at place pos of the
\* parent's enumeration order.
other_create_key(n, pos) ==
  /\ ~panicked
  /\ n.path # <<>>
  /\ ~Exists(n)
  /\ Exists(Parent(n))
  /\ Writable(n)
  /\ pos <= Len(reg[Parent(n)].sub) + 1
  /\ reg' = RegWithKeys({n}, pos)
  /\ iters' = Touch({Parent(n)}, "keys")
  /\ ret' = [op |-> "other_create_key", err |-> ERROR_SUCCESS]
  /\ calls' = <<>>
  /\ UNCHANGED <<htab, regkeys, panicked, tx>>

\* What an iterator remembers of its calls (for the properties only): the
\* index its last and its last-but-one next() asked the store for and how they
\* ended, and whether a store error came before the last call.
NoCall == [q |-> 0, res |-> "new"]
NewIter(kind, o) ==
  [kind |-> kind, key |-> o, index |-> 0,
   last |-> NoCall, prev |-> NoCall, afterErr |-> FALSE, clean |-> TRUE]

\* RegKey::enum_keys()
enum_keys(i, o) ==
  /\ ~panicked
  /\ o \in DOMAIN regkeys
  /\ i \notin DOMAIN iters
  /\ iters' = iters @@ (i :> NewIter("keys", o))
  /\ ret' = [op |-> "enum_keys", err |-> ERROR_SUCCESS, iter |-> i]
  /\ calls' = <<>>
  /\ UNCHANGED <<reg, htab, regkeys, panicked>>
  /\ UNCHANGED tx

\* RegKey::enum_values()
enum_values(i, o) ==
  /\ ~panicked
  /\ o \in DOMAIN regkeys
  /\ i \notin DOMAIN iters
  /\ iters' = iters @@ (i :> NewIter("values", o))
  /\ ret' = [op |-> "enum_values", err |-> ERROR_SUCCESS, iter |-> i]
  /\ calls' = <<>>
  /\ UNCHANGED <<reg, htab, regkeys, panicked>>
  /\ UNCHANGED tx

\* the iterator goes out of scope
iter_drop(i) ==
  /\ ~panicked
  /\ i \in DOMAIN iters
  /\ iters' = Without(iters, i)
  /\ ret' = [op |-> "iter_drop", err |-> ERROR_SUCCESS, iter |-> i]
  /\ calls' = <<>>
  /\ UNCHANGED <<reg, htab, regkeys, panicked>>
  /\ UNCHANGED tx

\* EnumKeys::next that takes the name buffer whatever the status is
EnumKeys_step_unchecked(index, r) ==
  IF r.err = ERROR_NO_MORE_ITEMS
  THEN [index |-> index, some |-> FALSE, err |-> ERROR_SUCCESS, res |-> "none"]
  ELSE [index |-> index + 1, some |-> TRUE, err |-> ERROR_SUCCESS,
        name |-> IF r.err = ERROR_SUCCESS THEN r.name ELSE "", res |-> "ok"]
\* EnumKeys::next: the new index and the item for what the store answered
EnumKeys_step(index, r) ==
  IF r.err = ERROR_SUCCESS
  THEN [index |-> index + 1, some |-> TRUE, err |-> ERROR_SUCCESS, name |-> r.name,
        res |-> "ok"]
  ELSE IF r.err = ERROR_NO_MORE_ITEMS
       THEN [index |-> index, some |-> FALSE, err |-> ERROR_SUCCESS, res |-> "none"]
       ELSE [index |-> index, some |-> TRUE, err |-> r.err, res |-> "err"]

\* EnumValues::next with the index moved on after the check of the type tag
EnumValues_step_late(index, r) ==
  IF r.err = ERROR_SUCCESS
  THEN IF r.buf_type > REG_QWORD
       THEN [index |-> index, some |-> TRUE, err |-> ERROR_BAD_FILE_TYPE,
             res |-> "decode"]
       ELSE [index |-> index + 1, some |-> TRUE, err |-> ERROR_SUCCESS, name |-> r.name,
             val |-> [vtype |-> r.buf_type, bytes |-> Truncate(r.buf, r.buf_len)],
             res |-> "ok"]
  ELSE IF r.err = ERROR_NO_MORE_ITEMS
       THEN [index |-> index, some |-> FALSE, err |-> ERROR_SUCCESS, res |-> "none"]
       ELSE [index |-> index, some |-> TRUE, err |-> r.err, res |-> "err"]
\* EnumValues::next: the new index and the item for what the store answered
EnumValues_step(index, r) ==
  IF r.err = ERROR_SUCCESS
  THEN IF r.buf_type > REG_QWORD
       THEN [index |-> index + 1, some |-> TRUE, err |-> ERROR_BAD_FILE_TYPE,
             res |-> "decode"]
       ELSE [index |-> index + 1, some |-> TRUE, err |-> ERROR_SUCCESS, name |-> r.name,
             val |-> [vtype |-> r.buf_type, bytes |-> Truncate(r.buf, r.buf_len)],
             res |-> "ok"]
  ELSE IF r.err = ERROR_NO_MORE_ITEMS
       THEN [index |-> index, some |-> FALSE, err |-> ERROR_SUCCESS, res |-> "none"]
       ELSE [index |-> index, some |-> TRUE, err |-> r.err, res |-> "err"]

\* the iterator moved on after every item it returned, errors included
IterAfter_eager(it, q, s) ==
  [it EXCEPT !.index = IF s.some THEN q + 1 ELSE q,
             !.prev = it.last,
             !.last = [q |-> q, res |-> s.res],
             !.afterErr = it.afterErr \/ it.last.res = "err"]
\* the iterator after a next() that asked for index q and got the step s
IterAfter(it, q, s) ==
  [it EXCEPT !.index = s.index,
             !.prev = it.last,
             !.last = [q |-> q, res |-> s.res],
             !.afterErr = it.afterErr \/ it.last.res = "err"]

\* EnumKeys::next()
EnumKeys_next(i) ==
  /\ ~panicked
  /\ i \in DOMAIN iters
  /\ iters[i].kind = "keys"
  /\ LET it == iters[i]
         hkey == regkeys[it.key].hkey
         r == RegEnumKeyExW(hkey, it.index, NameBufLen)
         s == EnumKeys_step(it.index, r)
     IN /\ calls' = <<[fn |-> "RegEnumKeyExW", hkey |-> hkey, index |-> it.index,
                       err |-> r.err]>>
        /\ iters' = [iters EXCEPT ![i] = IterAfter(it, it.index, s)]
        /\ ret' = [op |-> "EnumKeys::next", iter |-> i] @@ s
  /\ UNCHANGED <<reg, htab, regkeys, panicked>>
  /\ UNCHANGED tx

\* EnumValues::next()
EnumValues_next(i) ==
  /\ ~panicked
  /\ i \in DOMAIN iters
  /\ iters[i].kind = "values"
  /\ LET it == iters[i]
         hkey == regkeys[it.key].hkey
         r == RegEnumValueW(hkey, it.index, NameBufLen, InitBufLen)
         s == EnumValues_step(it.index, r)
     IN /\ calls' = <<[fn |-> "RegEnumValueW", hkey |-> hkey, index |-> it.index,
                       err |-> r.err]>>
        /\ iters' = [iters EXCEPT ![i] = IterAfter(it, it.index, s)]
        /\ ret' = [op |-> "EnumValues::next", iter |-> i] @@ s
  /\ UNCHANGED <<reg, htab, regkeys, panicked>>
  /\ UNCHANGED tx


\* -------------------------------------------------------- transactions
\* Transaction, create_subkey_transacted and the store's staging of what is
\* done under a transaction.  tx.state is the state of the one Transaction
\* object (none alive, active, committed, rolled-back); tx.view is the
\* registry as the active transaction sees it: the store with every staged
\* creation and write.  No other writer changes the store meanwhile.
\* the store's status for a transaction that is no longer active
ERROR_TRANSACTION_NOT_ACTIVE == 6701

\* a handle opened under a transaction; its field tx tells whether that
\* transaction is still the active one
Transacted(h) == h \in HandlePool /\ htab[h].open /\ "tx" \in DOMAIN htab[h]
UnderEnded(h) == Transacted(h) /\ ~htab[h].tx
\* The handle table once the transaction has ended.
EndedHtab ==
  [h \in HandlePool |->
     IF "tx" \in DOMAIN htab[h] THEN [htab[h] EXCEPT !.tx = FALSE] ELSE htab[h]]

\* Registry r with key n created, with its missing ancestors, each entering
\* its parent's order last.
RegCreateIn(r, n) ==
  LET new == {Node(n.root, SubSeq(n.path, 1, k)) : k \in 1..Len(n.path)} \ DOMAIN r
      kids(m) == {c \in new : Parent(c) = m}
  IN [m \in DOMAIN r \cup new |->
        IF m \in new
        THEN [sub |-> IF kids(m) = {} THEN <<>> ELSE <<Last(CHOOSE c \in kids(m) : TRUE)>>,
              val |-> <<>>]
        ELSE IF kids(m) = {} THEN r[m]
             ELSE [r[m] EXCEPT !.sub = Append(@, Last(CHOOSE c \in kids(m) : TRUE))]]
\* Registry r with the value e written to key n: in place, or last in the order.
RegSetIn(r, n, e) ==
  [r EXCEPT ![n].val =
     IF \E k \in 1..Len(@) : @[k].name = e.name
     THEN [@ EXCEPT ![CHOOSE k \in 1..Len(@) : @[k].name = e.name] = e]
     ELSE Append(@, e)]

\* Transaction::new()
Transaction_new ==
  /\ ~panicked
  /\ tx.state = "none"
  /\ tx' = [state |-> "active", view |-> reg]
  /\ ret' = [op |-> "Transaction::new", err |-> ERROR_SUCCESS]
  /\ calls' = <<>>
  /\ UNCHANGED <<reg, htab, regkeys, iters, panicked>>

\* RegKey::create_subkey_transacted(path, &t): the key is created in the
\* transaction's view only; the new handle is a handle under the transaction
create_subkey_transacted(o, path) ==
  /\ ~panicked
  /\ o \in DOMAIN regkeys
  /\ FreeObjs # {}
  /\ tx.state # "none"
  /\ LET hkey == regkeys[o].hkey
         n == Extend(KeyOf(hkey), path)
         e == IF HandleErr(hkey) # ERROR_SUCCESS THEN HandleErr(hkey)
              ELSE IF tx.state # "active" \/ UnderEnded(hkey)
                   THEN ERROR_TRANSACTION_NOT_ACTIVE
              ELSE IF n \in DOMAIN tx.view THEN ERROR_SUCCESS
              ELSE IF ~Writable(n) THEN ERROR_ACCESS_DENIED
              ELSE ERROR_SUCCESS
     IN /\ calls' = <<[fn |-> "RegCreateKeyTransactedW", hkey |-> hkey, err |-> e]>>
        /\ IF e = ERROR_SUCCESS
           THEN /\ n.path \in Paths
                /\ \E nh \in FreeHandles :
                     /\ htab' = [htab EXCEPT ![nh] =
                          [open |-> TRUE, node |-> n, deleted |-> FALSE, tx |-> TRUE]]
                     /\ regkeys' = regkeys @@ (NewObj :> NewKey(nh))
                     /\ ret' = [op |-> "create_subkey_transacted", err |-> ERROR_SUCCESS,
                                obj |-> NewObj, hkey |-> nh, node |-> n,
                                disp |-> IF n \in DOMAIN tx.view
                                         THEN REG_OPENED_EXISTING_KEY
                                         ELSE REG_CREATED_NEW_KEY]
                /\ tx' = [tx EXCEPT !.view = RegCreateIn(@, n)]
           ELSE /\ ret' = [op |-> "create_subkey_transacted", err |-> e]
                /\ UNCHANGED <<htab, regkeys, tx>>
  /\ UNCHANGED <<reg, iters, panicked>>

\* set_raw_value with the write made in the store at once
set_raw_value_transacted_through(o, name, value) ==
  /\ ~panicked
  /\ o \in DOMAIN regkeys
  /\ Transacted(regkeys[o].hkey)
  /\ LET hkey == regkeys[o].hkey
         n == KeyOf(hkey)
         e == IF tx.state # "active" \/ UnderEnded(hkey)
              THEN ERROR_TRANSACTION_NOT_ACTIVE ELSE ERROR_SUCCESS
     IN /\ calls' = <<[fn |-> "RegSetValueExW", hkey |-> hkey, err |-> e]>>
        /\ ret' = [op |-> "set_raw_value_transacted", obj |-> o, node |-> n,
                   name |-> name, err |-> e]
        /\ tx' = tx
        /\ reg' = IF e = ERROR_SUCCESS /\ n \in DOMAIN reg
                  THEN RegSetIn(reg, n, [name |-> name, vtype |-> value.vtype,
                                         bytes |-> value.bytes])
                  ELSE reg
  /\ UNCHANGED <<htab, regkeys, iters, panicked>>
\* RegKey::set_raw_value(name, value) on a key opened under a transaction: the
\* store stages the write in the transaction's view
set_raw_value_transacted(o, name, value) ==
  /\ ~panicked
  /\ o \in DOMAIN regkeys
  /\ Transacted(regkeys[o].hkey)
  /\ LET hkey == regkeys[o].hkey
         n == KeyOf(hkey)
         e == IF tx.state # "active" \/ UnderEnded(hkey)
              THEN ERROR_TRANSACTION_NOT_ACTIVE ELSE ERROR_SUCCESS
     IN /\ calls' = <<[fn |-> "RegSetValueExW", hkey |-> hkey, err |-> e]>>
        /\ ret' = [op |-> "set_raw_value_transacted", obj |-> o, node |-> n,
                   name |-> name, err |-> e]
        /\ tx' = IF e = ERROR_SUCCESS
                 THEN [tx EXCEPT !.view = RegSetIn(@, n, [name |-> name, vtype |-> value.vtype,
                                                          bytes |-> value.bytes])]
                 ELSE tx
        /\ reg' = reg
  /\ UNCHANGED <<htab, regkeys, iters, panicked>>

\* commit and rollback that leave the transaction active
Transaction_end_open(how) ==
  /\ ~panicked
  /\ tx.state # "none"
  /\ calls' = <<>>
  /\ IF tx.state = "active"
     THEN /\ reg' = IF how = "commit" THEN tx.view ELSE reg
          /\ tx' = [tx EXCEPT !.view = reg']
          /\ ret' = [op |-> how, err |-> ERROR_SUCCESS]
     ELSE /\ ret' = [op |-> how, err |-> ERROR_TRANSACTION_NOT_ACTIVE]
          /\ UNCHANGED <<reg, tx>>
  /\ UNCHANGED <<htab, regkeys, iters, panicked>>
\* Transaction::commit() (how = "commit") and Transaction::rollback()
Transaction_end(how) ==
  /\ ~panicked
  /\ tx.state # "none"
  /\ calls' = <<>>
  /\ IF tx.state = "active"
     THEN /\ reg' = IF how = "commit" THEN tx.view ELSE reg
          /\ tx' = [state |-> IF how = "commit" THEN "committed" ELSE "rolled-back",
                    view |-> <<>>]
          /\ htab' = EndedHtab
          /\ ret' = [op |-> how, err |-> ERROR_SUCCESS]
     ELSE /\ ret' = [op |-> how, err |-> ERROR_TRANSACTION_NOT_ACTIVE]
          /\ UNCHANGED <<reg, tx, htab>>
  /\ UNCHANGED <<regkeys, iters, panicked>>

\* the Transaction goes out of scope: what is staged and not committed is lost
Transaction_drop ==
  /\ ~panicked
  /\ tx.state # "none"
  /\ tx' = NoTransaction
  /\ htab' = EndedHtab
  /\ ret' = [op |-> "Transaction::drop", err |-> ERROR_SUCCESS, was |-> tx.state]
  /\ calls' = <<>>
  /\ UNCHANGED <<reg, regkeys, iters, panicked>>

\* --------------------------------------------------------------- rename
\* RegKey::rename_subkey(old, new) and the store's rename-key.
\* the store's status for a name that is taken
ERROR_ALREADY_EXISTS == 183

\* Key m of the subtree at `from`, as it is called once `from` is called `to`.
Moved(m, from, to) ==
  Node(m.root, to.path \o SubSeq(m.path, Len(from.path) + 1, Len(m.path)))
\* rename-key that takes the place of a child that has the new name
RegRenameKey_overwrite(hkey, old, new) ==
  IF HandleErr(hkey) # ERROR_SUCCESS THEN HandleErr(hkey)
  ELSE IF ~Exists(Extend(KeyOf(hkey), <<old>>)) THEN ERROR_FILE_NOT_FOUND
  ELSE IF ~Writable(KeyOf(hkey)) THEN ERROR_ACCESS_DENIED
  ELSE ERROR_SUCCESS
\* rename-key(handle, old-name, new-name): the status
RegRenameKey(hkey, old, new) ==
  IF HandleErr(hkey) # ERROR_SUCCESS THEN HandleErr(hkey)
  ELSE IF ~Exists(Extend(KeyOf(hkey), <<old>>)) THEN ERROR_FILE_NOT_FOUND
  ELSE IF ~Writable(KeyOf(hkey)) THEN ERROR_ACCESS_DENIED
  ELSE IF Exists(Extend(KeyOf(hkey), <<new>>)) THEN ERROR_ALREADY_EXISTS
  ELSE ERROR_SUCCESS
\* The store with the subtree at `from` renamed to `to`, the child keeping its
\* place in the parent's order, and the handle table: open handles follow.
RegRenamed(from, to) ==
  LET moving == Descendants(from)
      back(n) == CHOOSE m \in moving : Moved(m, from, to) = n
  IN [n \in (DOMAIN reg \ moving) \cup {Moved(m, from, to) : m \in moving} |->
        IF \E m \in moving : Moved(m, from, to) = n THEN reg[back(n)]
        ELSE IF n = Parent(from)
             THEN [reg[n] EXCEPT !.sub = [k \in 1..Len(@) |->
                                            IF @[k] = Last(from) THEN Last(to) ELSE @[k]]]
             ELSE reg[n]]
HtabRenamed(from, to) ==
  [h \in HandlePool |->
     IF htab[h].open /\ htab[h].node \in Descendants(from)
     THEN [htab[h] EXCEPT !.node = Moved(@, from, to)]
     ELSE htab[h]]

\* RegKey::rename_subkey(old, new)
rename_subkey(o, old, new) ==
  /\ ~panicked
  /\ o \in DOMAIN regkeys
  /\ LET hkey == regkeys[o].hkey
         e == RegRenameKey(hkey, old, new)
         from == Extend(KeyOf(hkey), <<old>>)
         to == Extend(KeyOf(hkey), <<new>>)
     IN /\ calls' = <<[fn |-> "RegRenameKey", hkey |-> hkey, err |-> e]>>
        /\ ret' = [op |-> "rename_subkey", obj |-> o, old |-> old, new |-> new, err |-> e]
        /\ reg' = IF e = ERROR_SUCCESS THEN RegRenamed(from, to) ELSE reg
        /\ htab' = IF e = ERROR_SUCCESS THEN HtabRenamed(from, to) ELSE htab
        /\ iters' = IF e = ERROR_SUCCESS THEN Touch({KeyOf(hkey)}, "keys") ELSE iters
  /\ UNCHANGED <<regkeys, panicked, tx>>

\* --------------------------------------------------------- value codec
\* The codec (types.rs): ToRegValue::to_reg_value and
\* FromRegValue::from_reg_value for String, OsString, u32, u64, Vec<String>
\* and raw bytes.  A String is its sequence of code points, an OsString its
\* sequence of 16-bit units, a u32 its two and a u64 its four 16-bit halves,
\* low half first, a Vec<String> a sequence of Strings, raw bytes a sequence
\* of bytes.
CodecTypes == {"String", "OsString", "u32", "u64", "Vec", "bytes"}

IsHigh(u) == u >= 55296 /\ u <= 56319
IsLow(u) == u >= 56320 /\ u <= 57343
\* the UTF-16 units of one code point
UnitsOf(cp) ==
  IF cp < 65536 THEN <<cp>>
  ELSE <<55296 + ((cp - 65536) \div 1024), 56320 + ((cp - 65536) % 1024)>>
\* the UTF-16 units of the code points cps[a..b]
RECURSIVE Utf16Range(_, _, _)
Utf16Range(cps, a, b) ==
  IF a > b THEN <<>>
  ELSE IF a = b THEN UnitsOf(cps[a])
  ELSE Utf16Range(cps, a, (a + b) \div 2) \o Utf16Range(cps, ((a + b) \div 2) + 1, b)
\* OsStr::encode_wide
encode_wide(cps) == Utf16Range(cps, 1, Len(cps))
\* to_utf16(s): the units of s and a NUL unit
to_utf16(cps) == encode_wide(cps) \o <<0>>

\* unit k of us is the second half of a surrogate pair
PairedLow(us, k) == IsLow(us[k]) /\ k > 1 /\ IsHigh(us[k - 1])
\* unit k of us is the first half of a surrogate pair
PairedHigh(us, k) == IsHigh(us[k]) /\ k < Len(us) /\ IsLow(us[k + 1])
\* String::from_utf16 accepts us: every surrogate is half of a pair
ValidUtf16(us) ==
  \A k \in 1..Len(us) :
    /\ IsHigh(us[k]) => PairedHigh(us, k)
    /\ IsLow(us[k]) => PairedLow(us, k)
\* the code points of the units us[a..b] of a valid us
RECURSIVE CodePointsRange(_, _, _)
CodePointsRange(us, a, b) ==
  IF a > b THEN <<>>
  ELSE IF a = b
       THEN IF PairedLow(us, a) THEN <<>>
            ELSE IF PairedHigh(us, a)
                 THEN <<65536 + (us[a] - 55296) * 1024 + (us[a + 1] - 56320)>>
                 ELSE <<us[a]>>
  ELSE CodePointsRange(us, a, (a + b) \div 2) \o CodePointsRange(us, ((a + b) \div 2) + 1, b)
from_utf16(us) == CodePointsRange(us, 1, Len(us))

\* v16_to_v8(v): the 16-bit units as bytes, little-endian
v16_to_v8(us) ==
  [k \in 1..(2 * Len(us)) |->
     IF k % 2 = 1 THEN us[(k + 1) \div 2] % 256 ELSE us[k \div 2] \div 256]
\* the bytes as 16-bit units, little-endian (an odd last byte is left out)
BytesToUnits(b) == [k \in 1..(Len(b) \div 2) |-> b[2 * k - 1] + 256 * b[2 * k]]

\* exactly one trailing NUL unit taken off, if there is one
StripNul(us) ==
  IF Len(us) > 0 /\ us[Len(us)] = 0 THEN SubSeq(us, 1, Len(us) - 1) ELSE us

\* the elements of a string sequence, each followed by a NUL unit
RECURSIVE Terminated(_)
Terminated(ss) ==
  IF ss = <<>> THEN <<>> ELSE to_utf16(Head(ss)) \o Terminated(Tail(ss))
\* the units split at the NUL units; the end of the buffer ends a last segment
RECURSIVE Segments(_)
Segments(us) ==
  IF us = <<>> THEN <<>>
  ELSE IF \E k \in 1..Len(us) : us[k] = 0
       THEN LET k == CHOOSE i \in 1..Len(us) :
                       us[i] = 0 /\ \A j \in 1..(i - 1) : us[j] # 0
            IN <<SubSeq(us, 1, k - 1)>> \o Segments(SubSeq(us, k + 1, Len(us)))
       ELSE <<us>>
\* the final empty segment, which the terminator of the sequence produced, dropped
DropTerminator(segs) ==
  IF segs # <<>> /\ segs[Len(segs)] = <<>> THEN SubSeq(segs, 1, Len(segs) - 1) ELSE segs

\* ToRegValue::to_reg_value for a value v of type T: the tag and the bytes
to_reg_value(T, v) ==
  CASE T = "String" -> [vtype |-> REG_SZ, bytes |-> v16_to_v8(to_utf16(v))]
    [] T = "OsString" -> [vtype |-> REG_SZ, bytes |-> v16_to_v8(v \o <<0>>)]
    [] T = "u32" -> [vtype |-> REG_DWORD, bytes |-> v16_to_v8(v)]
    [] T = "u64" -> [vtype |-> REG_QWORD, bytes |-> v16_to_v8(v)]
    [] T = "Vec" -> [vtype |-> REG_MULTI_SZ, bytes |-> v16_to_v8(Terminated(v) \o <<0>>)]
    [] T = "bytes" -> [vtype |-> REG_BINARY, bytes |-> v]

DecodeOk(v) == [ok |-> TRUE, err |-> ERROR_SUCCESS, val |-> v]
DecodeErr(e) == [ok |-> FALSE, err |-> e]
\* FromRegValue::from_reg_value for type T on the tag and bytes of rv
from_reg_value(T, rv) ==
  CASE T = "String" ->
         IF rv.vtype \notin {REG_SZ, REG_EXPAND_SZ, REG_LINK} THEN DecodeErr(ERROR_BAD_FILE_TYPE)
         ELSE IF ~ValidUtf16(StripNul(BytesToUnits(rv.bytes))) THEN DecodeErr(ERROR_INVALID_BLOCK)
         ELSE DecodeOk(from_utf16(StripNul(BytesToUnits(rv.bytes))))
    [] T = "OsString" ->
         IF rv.vtype \notin {REG_SZ, REG_EXPAND_SZ, REG_LINK} THEN DecodeErr(ERROR_BAD_FILE_TYPE)
         ELSE DecodeOk(StripNul(BytesToUnits(rv.bytes)))
    [] T = "u32" ->
         IF rv.vtype # REG_DWORD \/ Len(rv.bytes) # 4 THEN DecodeErr(ERROR_BAD_FILE_TYPE)
         ELSE DecodeOk(BytesToUnits(rv.bytes))
    [] T = "u64" ->
         IF rv.vtype # REG_QWORD \/ Len(rv.bytes) # 8 THEN DecodeErr(ERROR_BAD_FILE_TYPE)
         ELSE DecodeOk(BytesToUnits(rv.bytes))
    [] T = "Vec" ->
         IF rv.vtype # REG_MULTI_SZ THEN DecodeErr(ERROR_BAD_FILE_TYPE)
         ELSE LET segs == DropTerminator(Segments(BytesToUnits(rv.bytes)))
              IN IF \E k \in 1..Len(segs) : ~ValidUtf16(segs[k])
                 THEN DecodeErr(ERROR_INVALID_BLOCK)
                 ELSE DecodeOk([k \in 1..Len(segs) |-> from_utf16(segs[k])])
    [] T = "bytes" -> DecodeOk(rv.bytes)

\* The values written through set_value, per type: empty and non-empty, a code
\* point outside the basic plane, a string whose encoding is one unit longer
\* than the buffer of get_raw_value, zero and the largest integers.
LongString == [k \in 1..(InitBufLen \div 2) |-> 97]
TypedValues ==
  [T \in CodecTypes |->
     CASE T = "String" -> {<<>>, <<97>>, <<97, 128512>>, LongString}
       [] T = "OsString" -> {<<>>, <<97, 55357, 56832>>, <<55296>>}
       [] T = "u32" -> {<<0, 0>>, <<513, 1027>>, <<65535, 65535>>}
       [] T = "u64" -> {<<0, 0, 0, 0>>, <<65535, 65535, 65535, 65535>>}
       [] T = "Vec" -> {<<>>, <<<<>>>>, <<<<97>>, <<98, 128512>>>>}
       [] T = "bytes" -> {<<>>, <<1, 0, 255>>}]
\* to_reg_value over the values written
Encoded == [T \in CodecTypes |-> [v \in TypedValues[T] |-> to_reg_value(T, v)]]
\* a RegValue of the codec as the store keeps it, and back
Stored(rv) == [vtype |-> rv.vtype, bytes |-> [len |-> Len(rv.bytes), seed |-> rv.bytes]]
Loaded(val) == [vtype |-> val.vtype, bytes |-> val.bytes.seed]

\* RegKey::set_value(name, value): set_raw_value of value.to_reg_value()
set_value(o, name, T, v, pos) == set_raw_value(o, name, Stored(Encoded[T][v]), pos)

\* RegKey::get_value::<T>(name): get_raw_value, then from_reg_value
get_value(o, name, T) ==
  /\ ~panicked
  /\ o \in DOMAIN regkeys
  /\ LET r == RegQueryValueExW(regkeys[o].hkey, name, InitBufLen)
         g == get_raw_value_result(r)
     IN /\ calls' = <<[fn |-> "RegQueryValueExW", hkey |-> regkeys[o].hkey,
                       buf_len |-> InitBufLen, err |-> r.err]>>
        /\ ret' = [op |-> "get_value", obj |-> o, name |-> name, type |-> T]
                    @@ (IF g.ok THEN from_reg_value(T, Loaded(g.val)) ELSE DecodeErr(g.err))
  /\ UNCHANGED <<reg, htab, regkeys, iters, panicked>>
  /\ UNCHANGED tx

\* ------------------------------------------------------- specifications
Init ==
  /\ reg = [n \in {Node(r, <<>>) : r \in PredefRoots} |-> EmptyKey]
  /\ htab = [h \in HandlePool |-> ClosedEntry]
  /\ regkeys = <<>>
  /\ iters = <<>>
  /\ ret = [op |-> "init", err |-> ERROR_SUCCESS]
  /\ calls = <<>>
  /\ panicked = FALSE
  /\ tx = NoTransaction

\* Keys and handles: predef, open, create, drop.
NextKey ==
  \/ \E r \in WorkRoots : predef(r)
  \/ \E o \in ObjIds, p \in Paths : open_subkey_with_flags(o, p)
  \/ \E o \in ObjIds, p \in Paths : create_subkey_with_flags(o, p)
  \/ \E o \in ObjIds : drop(o)
SpecKey == Init /\ [][NextKey]_vars

\* Values of one key (HKEY_CURRENT_USER): set, get, delete, enumerate.
ValIters == {1}
NextVal ==
  \/ regkeys = <<>> /\ predef(HKEY_CURRENT_USER)
  \/ \E o \in ObjIds, n \in ValueNames, v \in RegValues, pos \in 1..Cardinality(ValueNames) :
       set_raw_value(o, n, v, pos)
  \/ \E o \in ObjIds, n \in ValueNames : get_raw_value(o, n)
  \/ \E o \in ObjIds, n \in ValueNames : delete_value(o, n)
  \/ \E n \in ValueNames, v \in OtherValues, pos \in 1..Cardinality(ValueNames) :
       other_set_value(Node(HKEY_CURRENT_USER, <<>>), n, v.vtype, v.bytes, pos)
  \/ \E i \in ValIters, o \in ObjIds : enum_values(i, o)
  \/ \E i \in ValIters : EnumValues_next(i)
  \/ \E i \in ValIters : iter_drop(i)
SpecVal == Init /\ [][NextVal]_vars

\* The roots: every predefined root, reopened and dropped.
NextRoot ==
  \/ \E r \in PredefRoots : predef(r)
  \/ \E o \in ObjIds : open_subkey_with_flags(o, <<>>)
  \/ \E o \in ObjIds : drop(o)
SpecRoot == Init /\ [][NextRoot]_vars

\* close_ called by code of the crate before the RegKey is dropped.
NextClose ==
  \/ regkeys = <<>> /\ predef(HKEY_CURRENT_USER)
  \/ \E o \in ObjIds, p \in Paths : create_subkey_with_flags(o, p)
  \/ \E o \in ObjIds : close_call(o)
  \/ \E o \in ObjIds : drop(o)
SpecClose == Init /\ [][NextClose]_vars

\* Child keys enumerated while another actor deletes keys.
KeyIters == {1}
NextIter ==
  \/ regkeys = <<>> /\ predef(HKEY_CURRENT_USER)
  \/ \E o \in ObjIds, p \in Paths : create_subkey_with_flags(o, p)
  \/ \E o \in ObjIds : drop(o)
  \/ \E r \in WorkRoots, p \in Paths : other_delete_key(Node(r, p))
  \/ \E i \in KeyIters, o \in ObjIds : enum_keys(i, o)
  \/ \E i \in KeyIters : EnumKeys_next(i)
  \/ \E i \in KeyIters : iter_drop(i)
SpecIter == Init /\ [][NextIter]_vars

\* Child keys enumerated while the program and another actor create and delete
\* keys between the calls.  One handle besides the root is held at a time.
NextMut ==
  \/ regkeys = <<>> /\ predef(HKEY_CURRENT_USER)
  \/ \E o \in ObjIds, p \in Paths :
       /\ \A q \in DOMAIN regkeys : regkeys[q].hkey \in PredefRoots
       /\ create_subkey_with_flags(o, p)
  \/ \E o \in ObjIds :
       /\ o \in DOMAIN regkeys
       /\ regkeys[o].hkey \notin PredefRoots
       /\ drop(o)
  \/ \E p \in Paths : other_delete_key(Node(HKEY_CURRENT_USER, p))
  \/ \E p \in Paths, pos \in 1..Cardinality(KeyNames) :
       other_create_key(Node(HKEY_CURRENT_USER, p), pos)
  \/ \E i \in KeyIters, o \in ObjIds : enum_keys(i, o)
  \/ \E i \in KeyIters : EnumKeys_next(i)
  \/ \E i \in KeyIters : iter_drop(i)
SpecMut == Init /\ [][NextMut]_vars

\* Two iterators at a time over the children and the values of one key
\* (HKEY_CURRENT_USER), whose entries another actor adds at the head of the
\* order: values that fit the buffer, one that does not, and one of a type tag
\* past REG_QWORD.
PosIters == {1, 2}
PosValues ==
  {[vtype |-> REG_BINARY, bytes |-> [len |-> l, seed |-> 1]] : l \in {InitBufLen, InitBufLen + 1}}
    \cup OtherValues
NextPos ==
  \/ regkeys = <<>> /\ predef(HKEY_CURRENT_USER)
  \/ \E n \in KeyNames : other_create_key(Node(HKEY_CURRENT_USER, <<n>>), 1)
  \/ \E n \in ValueNames, v \in PosValues :
       /\ ~HasValue(Node(HKEY_CURRENT_USER, <<>>), n)
       /\ other_set_value(Node(HKEY_CURRENT_USER, <<>>), n, v.vtype, v.bytes, 1)
  \/ \E i \in PosIters : enum_keys(i, 1)
  \/ \E i \in PosIters : enum_values(i, 1)
  \/ \E i \in PosIters : EnumKeys_next(i)
  \/ \E i \in PosIters : EnumValues_next(i)
  \/ \E i \in PosIters : iter_drop(i)
SpecPos == Init /\ [][NextPos]_vars

\* Typed values of one key (HKEY_CURRENT_USER): set_value and get_value of
\* every type of the codec.
NextCodec ==
  \/ regkeys = <<>> /\ predef(HKEY_CURRENT_USER)
  \/ \E n \in ValueNames, T \in CodecTypes : \E v \in TypedValues[T] :
       set_value(1, n, T, v, 1)
  \/ \E n \in ValueNames, T \in CodecTypes : get_value(1, n, T)
SpecCodec == Init /\ [][NextCodec]_vars

\* Reads among writes: a key created below HKEY_CURRENT_USER, typed values
\* written to its name "v", and every reading operation, with one iterator
\* and one handle besides the root at a time.
ReadIters == {1}
ReadTypes == {"String", "u32"}
NextRead ==
  \/ regkeys = <<>> /\ predef(HKEY_CURRENT_USER)
  \/ /\ \A q \in DOMAIN regkeys : regkeys[q].hkey \in PredefRoots
     /\ create_subkey_with_flags(1, <<"a">>)
  \/ \E T \in ReadTypes : \E v \in TypedValues[T] : set_value(1, "v", T, v, 1)
  \/ \E o \in ObjIds :
       /\ o \in DOMAIN regkeys
       /\ regkeys[o].hkey \notin PredefRoots
       /\ drop(o)
  \/ \E o \in ObjIds : query_info(o)
  \/ \E o \in ObjIds, n \in ValueNames : get_raw_value(o, n)
  \/ \E o \in ObjIds, n \in ValueNames, T \in ReadTypes : get_value(o, n, T)
  \/ \E p \in Paths :
       /\ \A q \in DOMAIN regkeys : regkeys[q].hkey \in PredefRoots
       /\ open_subkey_with_flags(1, p)
  \/ \E i \in ReadIters, o \in ObjIds : enum_keys(i, o)
  \/ \E i \in ReadIters, o \in ObjIds : enum_values(i, o)
  \/ \E i \in ReadIters : EnumKeys_next(i)
  \/ \E i \in ReadIters : EnumValues_next(i)
  \/ \E i \in ReadIters : iter_drop(i)
SpecRead == Init /\ [][NextRead]_vars

\* Keys deleted: delete_subkey and delete_subkey_all over keys with and without
\* children and values.  A predefined root is not named by an empty path.
DelPaths == {<<"a">>, <<"a", "b">>}
DelValue == [vtype |-> REG_BINARY, bytes |-> [len |-> InitBufLen, seed |-> 1]]
NextDel ==
  \/ regkeys = <<>> /\ predef(HKEY_CURRENT_USER)
  \/ \E o \in ObjIds, p \in DelPaths : create_subkey_with_flags(o, p)
  \/ \E o \in ObjIds : set_raw_value(o, "v", DelValue, 1)
  \/ \E o \in ObjIds, p \in Paths :
       /\ o \in DOMAIN regkeys
       /\ p = <<>> => regkeys[o].hkey \notin PredefRoots
       /\ delete_subkey(o, p)
  \/ \E o \in ObjIds, p \in Paths :
       /\ o \in DOMAIN regkeys
       /\ p = <<>> => regkeys[o].hkey \notin PredefRoots
       /\ delete_subkey_all(o, p)
  \/ \E o \in ObjIds : drop(o)
SpecDel == Init /\ [][NextDel]_vars

\* A RegKey dropped after the store invalidated its handle.
NextDrop ==
  \/ regkeys = <<>> /\ predef(HKEY_CURRENT_USER)
  \/ \E o \in ObjIds, p \in Paths : create_subkey_with_flags(o, p)
  \/ \E h \in HandlePool : store_invalidate(h)
  \/ \E o \in ObjIds : drop(o)
SpecDrop == Init /\ [][NextDrop]_vars

\* Child keys of the root renamed, with keys and values below them.
RenPaths == {<<"a">>, <<"b">>, <<"a", "b">>}
NextRen ==
  \/ regkeys = <<>> /\ predef(HKEY_CURRENT_USER)
  \/ \E o \in ObjIds, p \in RenPaths : create_subkey_with_flags(o, p)
  \/ \E o \in ObjIds : set_raw_value(o, "v", DelValue, 1)
  \/ \E o \in ObjIds, old \in KeyNames, new \in KeyNames :
       /\ o \in DOMAIN regkeys
       /\ regkeys[o].hkey \in PredefRoots
       /\ rename_subkey(o, old, new)
  \/ \E o \in ObjIds : drop(o)
SpecRen == Init /\ [][NextRen]_vars

\* A transaction: keys created and values written under it, committed, rolled
\* back or dropped, and read meanwhile through handles opened outside it.
TxPaths == {<<>>, <<"a">>}
NextTx ==
  \/ regkeys = <<>> /\ predef(HKEY_CURRENT_USER)
  \/ Transaction_new
  \/ \E o \in ObjIds, p \in TxPaths : create_subkey_transacted(o, p)
  \/ \E o \in ObjIds : set_raw_value_transacted(o, "v", DelValue)
  \/ \E h \in {"commit", "rollback"} : Transaction_end(h)
  \/ Transaction_drop
  \/ \E o \in ObjIds, p \in TxPaths :
       /\ o \in DOMAIN regkeys
       /\ ~Transacted(regkeys[o].hkey)
       /\ open_subkey_with_flags(o, p)
  \/ \E o \in ObjIds :
       /\ o \in DOMAIN regkeys
       /\ ~Transacted(regkeys[o].hkey)
       /\ get_raw_value(o, "v")
  \/ \E o \in ObjIds : drop(o)
SpecTx == Init /\ [][NextTx]_vars
\* ---------------------------------------------------------- properties
\* The key a live iterator runs over, and what its last next() was asked.
IterHkey(i) == regkeys[iters[i].key].hkey
IterVals(i) == reg[KeyOf(IterHkey(i))].val
\* ret is the result of the last next() of iterator i, which is still alive
RetIsNextOf(i, op) == ret.op = op /\ ret.iter = i /\ i \in DOMAIN iters
Fits(e) == NameChars(e.name) + 1 <= NameBufLen /\ e.bytes.len <= InitBufLen
AsValue(e) == [vtype |-> e.vtype, bytes |-> e.bytes]

\* C1: a get_raw_value of a name whose value in the store is one that
\* set_raw_value wrote (no later write or delete of the name) returns Ok with
\* exactly that type tag and those bytes, whatever the length of the value.
C1_SetThenGet ==
  (/\ ret.op = "get_raw_value"
   /\ HandleErr(regkeys[ret.obj].hkey) = ERROR_SUCCESS
   /\ HasValue(KeyOf(regkeys[ret.obj].hkey), ret.name)
   /\ AsValue(ValueAt(KeyOf(regkeys[ret.obj].hkey), ret.name)) \in RegValues)
  => /\ ret.ok
     /\ ret.val = AsValue(ValueAt(KeyOf(regkeys[ret.obj].hkey), ret.name))

\* C2: whenever the store answers a query of get_raw_value with
\* ERROR_MORE_DATA, get_raw_value calls the store again on a larger buffer, so
\* ERROR_MORE_DATA is never what the caller gets; on success the bytes
\* returned have the length the store reported.
C2_GrowAndRetry ==
  ret.op = "get_raw_value" =>
    /\ ret.err # ERROR_MORE_DATA
    /\ \A k \in 1..Len(calls) :
         calls[k].err = ERROR_MORE_DATA =>
           /\ k < Len(calls)
           /\ calls[k + 1].fn = "RegQueryValueExW"
           /\ calls[k + 1].buf_len > calls[k].buf_len
    /\ ret.ok => ret.val.bytes.len =
                   ValueAt(KeyOf(regkeys[ret.obj].hkey), ret.name).bytes.len

\* C3: every successful create_subkey reports to its caller exactly one of
\* REG_CREATED_NEW_KEY and REG_OPENED_EXISTING_KEY: the disposition the store
\* wrote, created-new for a path that did not exist, opened-existing otherwise.
C3_DispositionReported ==
  (ret.op = "create_subkey" /\ ret.err = ERROR_SUCCESS) =>
    /\ "disp" \in DOMAIN ret
    /\ ret.disp \in {REG_CREATED_NEW_KEY, REG_OPENED_EXISTING_KEY}
    /\ ret.disp = calls[1].disp

\* C4: over a key whose values were all set through set_raw_value and that is
\* not changed during the iteration, each next() of an enum_values() iterator
\* yields the (name, value) pair at the iterator's position, as it was set, and
\* moves on by one, and the call at the end of the values returns None: so
\* every pair comes exactly once, none is left out, and then the sequence ends.
C4_EnumComplete ==
  \A i \in DOMAIN iters :
    (/\ RetIsNextOf(i, "EnumValues::next")
     /\ iters[i].clean
     /\ \A k \in 1..Len(IterVals(i)) : AsValue(IterVals(i)[k]) \in RegValues)
    => LET q == iters[i].last.q
       IN /\ q < Len(IterVals(i)) =>
               /\ ret.some /\ ret.err = ERROR_SUCCESS
               /\ ret.name = IterVals(i)[q + 1].name
               /\ ret.val = AsValue(IterVals(i)[q + 1])
               /\ iters[i].index = q + 1
          /\ q >= Len(IterVals(i)) => ~ret.some

\* C5: a next() of enum_values() that comes to a value whose data is longer
\* than the InitBufLen bytes of the step's buffer yields Ok((name, value))
\* with the bytes that were set; no step returns ERROR_MORE_DATA.
C5_EnumLongValues ==
  \A i \in DOMAIN iters :
    RetIsNextOf(i, "EnumValues::next") =>
      /\ ret.err # ERROR_MORE_DATA
      /\ LET q == iters[i].last.q
         IN (/\ q < Len(IterVals(i))
             /\ IterVals(i)[q + 1].bytes.len > InitBufLen
             /\ IterVals(i)[q + 1].vtype <= REG_QWORD)
            => /\ ret.some /\ ret.err = ERROR_SUCCESS
               /\ ret.val.bytes = IterVals(i)[q + 1].bytes

\* C6: in an iteration, ERROR_NO_MORE_ITEMS makes next() return None; any
\* other error of the store is returned by one next() as Some(Err), every
\* later next() of that iterator returns None, and the index that failed is
\* not asked for again.
C6_ErrorOnce ==
  \A i \in DOMAIN iters :
    /\ (RetIsNextOf(i, "EnumKeys::next") \/ RetIsNextOf(i, "EnumValues::next"))
         => (calls[1].err = ERROR_NO_MORE_ITEMS => ~ret.some /\ ret.err = ERROR_SUCCESS)
    /\ iters[i].last.res = "err" => ~iters[i].afterErr /\ iters[i].prev.res # "err"
    /\ (iters[i].afterErr \/ iters[i].prev.res = "err") => iters[i].last.res = "none"

OpenHandles == {h \in HandlePool : htab[h].open}
C8_HandleLifecycle ==
  /\ OpenHandles = {regkeys[o].hkey : o \in DOMAIN regkeys} \ PredefRoots
  /\ \A o1, o2 \in DOMAIN regkeys :
       (o1 # o2 /\ regkeys[o1].hkey = regkeys[o2].hkey) => regkeys[o1].hkey \in PredefRoots
  /\ \A k \in 1..Len(calls) :
       calls[k].fn = "RegCloseKey" =>
         calls[k].err = ERROR_SUCCESS /\ calls[k].hkey \in HandlePool
  /\ (ret.op = "drop" /\ ret.hkey \notin PredefRoots) =>
       /\ Len(calls) = 1 /\ calls[1].fn = "RegCloseKey" /\ calls[1].hkey = ret.hkey
       /\ ~htab[ret.hkey].open
  /\ ~panicked
\* a store-allocated handle was closed by a drop while another one is owned
C8_Witness ==
  /\ ret.op = "drop" /\ ret.hkey \in HandlePool /\ Len(calls) = 1
  /\ \E o \in DOMAIN regkeys : regkeys[o].hkey \in HandlePool

\* C9: for a RegKey made by predef(root), for every predefined root, close_ and
\* drop never call the store's close-key on the root, and close_ returns Ok.
C9_RootNeverClosed ==
  /\ \A r \in PredefRoots : close_(r).calls = <<>> /\ close_(r).err = ERROR_SUCCESS
  /\ \A k \in 1..Len(calls) :
       calls[k].fn = "RegCloseKey" => calls[k].hkey \notin PredefRoots
  /\ (ret.op = "drop" /\ ret.hkey \in PredefRoots) =>
       calls = <<>> /\ ret.err = ERROR_SUCCESS /\ ~panicked
\* the lowest root was dropped while a store-allocated handle is owned
C9_Witness ==
  /\ ret.op = "drop" /\ ret.hkey = HKEY_CLASSES_ROOT
  /\ \E o \in DOMAIN regkeys : regkeys[o].hkey \in HandlePool

\* C10: close_ on a RegKey on which close_ already ran is a no-op: it returns
\* Ok and does not call the store's close-key again.
C10_CloseIdempotent ==
  (ret.op \in {"close_", "drop"} /\ ret.again) =>
    ret.err = ERROR_SUCCESS /\ calls = <<>>

\* C11: when the store's close-key returns an error while a RegKey is being
\* dropped, nothing of the failure reaches the caller: the drop does not panic
\* and the program goes on, the RegKey and its handle released.
C11_DropSwallowsFailure ==
  (ret.op = "drop" /\ \E k \in 1..Len(calls) :
                        calls[k].fn = "RegCloseKey" /\ calls[k].err # ERROR_SUCCESS)
  => /\ ~panicked
     /\ ret.obj \notin DOMAIN regkeys

\* The key a finished delete call named, seen from the state before the call.
Target(r) == Extend(KeyOf(regkeys[r.obj].hkey), r.path)
\* The delete call that ends here named an existing key below a live handle's
\* key, in a hive the user may write.
Deletes(op, r) ==
  /\ r.op = op
  /\ r.path # <<>>
  /\ HandleErr(regkeys[r.obj].hkey) = ERROR_SUCCESS
  /\ Exists(Target(r))
  /\ Writable(Target(r))

\* C12: delete_subkey(path) on an existing key without children returns Ok and
\* removes that key alone: every other key keeps its values and its children,
\* the parent losing the one name.  On a key with a child it returns the
\* store's error for a key that has subkeys and the tree is unchanged.
C12_DeleteLeafOnly ==
  [][Deletes("delete_subkey", ret') =>
       LET n == Target(ret')
       IN IF reg[n].sub = <<>>
          THEN /\ ret'.err = ERROR_SUCCESS
               /\ DOMAIN reg' = DOMAIN reg \ {n}
               /\ \A m \in DOMAIN reg' :
                    /\ reg'[m].val = reg[m].val
                    /\ reg'[m].sub = IF m = Parent(n)
                                     THEN SelectSeq(reg[m].sub, LAMBDA c : c # Last(n))
                                     ELSE reg[m].sub
          ELSE /\ ret'.err = ERROR_ACCESS_DENIED
               /\ reg' = reg
               /\ htab' = htab]_vars
\* a delete_subkey was refused for a key with a child that holds a value
C12_Witness ==
  /\ ret.op = "delete_subkey" /\ ret.err = ERROR_ACCESS_DENIED /\ ret.path = <<"a">>
  /\ Exists(Node(HKEY_CURRENT_USER, <<"a", "b">>))
  /\ reg[Node(HKEY_CURRENT_USER, <<"a", "b">>)].val # <<>>

\* C13: delete_subkey with an empty path returns an error and makes no call
\* to the store, so that no key deletes itself through it.
C13_EmptyPathRejected ==
  (ret.op = "delete_subkey" /\ ret.path = <<>>) =>
    /\ ret.err # ERROR_SUCCESS
    /\ calls = <<>>

\* C14: delete_subkey_all(path) on an existing key, with or without children,
\* returns Ok; the key and every key below it are gone with their values,
\* open_subkey of the path and of every path below it then fails with
\* ERROR_FILE_NOT_FOUND, and every key outside the subtree is as before, the
\* parent losing the one name.
C14_DeleteTree ==
  [][Deletes("delete_subkey_all", ret') =>
       LET n == Target(ret')
           h == regkeys[ret'.obj].hkey
       IN /\ ret'.err = ERROR_SUCCESS
          /\ DOMAIN reg' = DOMAIN reg \ Descendants(n)
          /\ h \in PredefRoots \/ (htab'[h].open /\ ~htab'[h].deleted)
          /\ \A p \in Paths : Extend(KeyOf(h), ret'.path \o p) \notin DOMAIN reg'
          /\ \A m \in DOMAIN reg' :
               /\ reg'[m].val = reg[m].val
               /\ reg'[m].sub = IF m = Parent(n)
                                THEN SelectSeq(reg[m].sub, LAMBDA c : c # Last(n))
                                ELSE reg[m].sub]_vars
\* a delete_subkey_all removed a key with a child on which a handle is open,
\* the value of the key above it staying
C14_Witness ==
  /\ ret.op = "delete_subkey_all" /\ ret.err = ERROR_SUCCESS /\ ret.path = <<"a">>
  /\ \E h \in HandlePool :
       htab[h].open /\ htab[h].deleted /\ htab[h].node = Node(HKEY_CURRENT_USER, <<"a", "b">>)
  /\ reg[Node(HKEY_CURRENT_USER, <<>>)].val # <<>>

\* C15: delete_subkey_all with an empty path returns Ok and removes every child
\* of the handle's key, with all below, but not the key: it still exists and
\* has no child keys.
C15_EmptyPathKeepsSelf ==
  [][(/\ ret'.op = "delete_subkey_all"
      /\ ret'.path = <<>>
      /\ HandleErr(regkeys[ret'.obj].hkey) = ERROR_SUCCESS
      /\ Writable(KeyOf(regkeys[ret'.obj].hkey)))
     => LET n == KeyOf(regkeys[ret'.obj].hkey)
        IN /\ ret'.err = ERROR_SUCCESS
           /\ n \in DOMAIN reg'
           /\ reg'[n].sub = <<>>
           /\ DOMAIN reg' = (DOMAIN reg \ Descendants(n)) \cup {n}]_vars

\* C16: open_subkey with an empty path returns a RegKey with a handle of its
\* own on the same key: a handle the store allocated for the call, not the
\* caller's; every live RegKey stays usable whichever others were dropped, and
\* a drop closes the dropped RegKey's handle, once, and no other.
C16_ReopenIndependent ==
  /\ (ret.op = "open_subkey" /\ ret.err = ERROR_SUCCESS /\ ret.path = <<>>) =>
       /\ ret.hkey \in HandlePool
       /\ htab[ret.hkey].open
       /\ regkeys[ret.obj].hkey = ret.hkey
       /\ regkeys[ret.from].hkey # ret.hkey
       /\ KeyOf(ret.hkey) = KeyOf(regkeys[ret.from].hkey)
  /\ \A o \in DOMAIN regkeys : HandleErr(regkeys[o].hkey) = ERROR_SUCCESS
  /\ \A o1, o2 \in DOMAIN regkeys :
       (o1 # o2 /\ regkeys[o1].hkey = regkeys[o2].hkey) => regkeys[o1].hkey \in PredefRoots
  /\ (ret.op = "drop" /\ ret.hkey \in HandlePool) =>
       /\ calls = <<[fn |-> "RegCloseKey", hkey |-> ret.hkey, err |-> ERROR_SUCCESS]>>
       /\ ~htab[ret.hkey].open
       /\ ~panicked
\* a key reopened through its store-allocated handle, and the first handle
\* dropped: the second is open on the key
C16_Witness ==
  /\ ret.op = "drop" /\ ret.hkey \in HandlePool
  /\ \E o \in DOMAIN regkeys :
       /\ regkeys[o].hkey \in HandlePool
       /\ htab[regkeys[o].hkey].open
       /\ htab[regkeys[o].hkey].node = ret.node
       /\ ret.obj < o

\* C17: get_raw_value of a name that has a value in the store returns Ok with
\* the value's type tag and bytes as stored, whatever the tag is, also a tag
\* past REG_QWORD that RegType does not know (here for values that fit the
\* buffer of the call).
C17_RawAlwaysSucceeds ==
  (/\ ret.op = "get_raw_value"
   /\ HandleErr(regkeys[ret.obj].hkey) = ERROR_SUCCESS
   /\ HasValue(KeyOf(regkeys[ret.obj].hkey), ret.name)
   /\ ValueAt(KeyOf(regkeys[ret.obj].hkey), ret.name).bytes.len <= InitBufLen)
  => /\ ret.ok
     /\ ret.val = AsValue(ValueAt(KeyOf(regkeys[ret.obj].hkey), ret.name))

\* C18: what is created and written through keys opened under a transaction
\* is not in the store while the transaction is active: such a step leaves the
\* store as it is, and a read through a handle opened outside answers from the
\* store.  A commit puts all of it in the store: every key of the
\* transaction's view with its values.  A rollback, and the drop of the
\* Transaction while active, leave the store as it is and the staged work is
\* gone.  The store changes at a commit of an active transaction only.
C18_TxAtomicity ==
  [][/\ ret'.op \in {"create_subkey_transacted", "set_raw_value_transacted"} =>
          /\ reg' = reg
          /\ ret'.err = ERROR_SUCCESS => tx.state = "active" /\ tx'.state = "active"
          /\ ret'.err # ERROR_SUCCESS => tx' = tx
          /\ ret'.err = ERROR_SUCCESS => ret'.node \in DOMAIN tx'.view
          /\ (ret'.op = "set_raw_value_transacted" /\ ret'.err = ERROR_SUCCESS) =>
               \E k \in 1..Len(tx'.view[ret'.node].val) :
                 tx'.view[ret'.node].val[k] =
                   [name |-> ret'.name, vtype |-> DelValue.vtype, bytes |-> DelValue.bytes]
     /\ (ret'.op = "get_raw_value" /\ tx.state = "active") =>
          ret'.ok = HasValue(KeyOf(regkeys[ret'.obj].hkey), ret'.name)
     /\ (ret'.op = "open_subkey" /\ tx.state = "active") =>
          (ret'.err = ERROR_SUCCESS) =
            (Extend(KeyOf(regkeys[ret'.from].hkey), ret'.path) \in DOMAIN reg)
     /\ (ret'.op = "commit" /\ tx.state = "active") =>
          /\ ret'.err = ERROR_SUCCESS
          /\ DOMAIN reg' = DOMAIN tx.view
          /\ \A n \in DOMAIN tx.view : reg'[n] = tx.view[n]
     /\ ((ret'.op = "rollback" \/ ret'.op = "Transaction::drop") /\ tx.state = "active") =>
          /\ reg' = reg
          /\ tx'.state # "active"
          /\ tx'.view = <<>>
     /\ reg' # reg => ret'.op = "commit" /\ tx.state = "active"]_vars
\* a value written under the active transaction is missing for a read through
\* the root's own handle
C18_Witness ==
  /\ tx.state = "active"
  /\ ret.op = "get_raw_value" /\ ~ret.ok /\ ret.err = ERROR_FILE_NOT_FOUND
  /\ tx.view[Node(HKEY_CURRENT_USER, <<>>)].val # <<>>

\* C19: a Transaction starts active; a commit or rollback of an active
\* transaction succeeds and leaves it committed or rolled-back; a commit or
\* rollback of one that is committed or rolled-back fails with the
\* transaction-terminal error and changes neither the store nor the
\* transaction; the drop of an active Transaction leaves the store unchanged.
C19_TxStateMachine ==
  [][/\ ret'.op = "Transaction::new" => tx'.state = "active"
     /\ ret'.op \in {"commit", "rollback"} =>
          IF tx.state = "active"
          THEN /\ ret'.err = ERROR_SUCCESS
               /\ tx'.state = IF ret'.op = "commit" THEN "committed" ELSE "rolled-back"
          ELSE /\ tx.state \in {"committed", "rolled-back"}
               /\ ret'.err = ERROR_TRANSACTION_NOT_ACTIVE
               /\ tx' = tx
               /\ reg' = reg
     /\ ret'.op = "Transaction::drop" => reg' = reg /\ tx'.state = "none"
     /\ (tx.state \in {"committed", "rolled-back"} /\ tx'.state # tx.state) =>
          ret'.op = "Transaction::drop"]_vars
\* a rollback was refused on a committed transaction whose work is in the store
C19_Witness ==
  /\ ret.op = "rollback" /\ ret.err = ERROR_TRANSACTION_NOT_ACTIVE
  /\ tx.state = "committed"
  /\ Exists(Node(HKEY_CURRENT_USER, <<"a">>))

\* C20: rename_subkey(old, new) on an existing child old: with no child new it
\* returns Ok, the key is found under the new name and no longer under the
\* old, with its values, its children and all below it as they were, every
\* other key unchanged; with a child new it fails with already-exists and the
\* store is unchanged, both children as they were.
C20_Rename ==
  [][(/\ ret'.op = "rename_subkey"
      /\ HandleErr(regkeys[ret'.obj].hkey) = ERROR_SUCCESS
      /\ Exists(Extend(KeyOf(regkeys[ret'.obj].hkey), <<ret'.old>>))
      /\ Writable(KeyOf(regkeys[ret'.obj].hkey)))
     => LET from == Extend(KeyOf(regkeys[ret'.obj].hkey), <<ret'.old>>)
            to == Extend(KeyOf(regkeys[ret'.obj].hkey), <<ret'.new>>)
        IN IF Exists(to)
           THEN /\ ret'.err = ERROR_ALREADY_EXISTS
                /\ reg' = reg
                /\ htab' = htab
           ELSE /\ ret'.err = ERROR_SUCCESS
                /\ to \in DOMAIN reg'
                /\ from \notin DOMAIN reg'
                /\ \A m \in Descendants(from) :
                     /\ m \notin DOMAIN reg'
                     /\ Moved(m, from, to) \in DOMAIN reg'
                     /\ reg'[Moved(m, from, to)] = reg[m]
                /\ Cardinality(DOMAIN reg') = Cardinality(DOMAIN reg)
                /\ \A n \in DOMAIN reg \ Descendants(from) :
                     /\ n \in DOMAIN reg'
                     /\ reg'[n].val = reg[n].val
                     /\ Len(reg'[n].sub) = Len(reg[n].sub)
                     /\ n # Parent(from) => reg'[n].sub = reg[n].sub]_vars
\* a child with a value and a child key of its own was renamed
C20_Witness ==
  /\ ret.op = "rename_subkey" /\ ret.err = ERROR_SUCCESS /\ ret.new = "b"
  /\ Exists(Node(HKEY_CURRENT_USER, <<"b", "b">>))
  /\ reg[Node(HKEY_CURRENT_USER, <<"b">>)].val # <<>>
  /\ ~Exists(Node(HKEY_CURRENT_USER, <<"a">>))

\* C22: the store calls of one get_raw_value are made on buffers that grow
\* from call to call, and when the last of them still answers
\* ERROR_MORE_DATA the call gives up with the data-too-large error: an error
\* that is not the store's ERROR_MORE_DATA, after more than the one attempt.
C22_GrowthCeiling ==
  ret.op = "get_raw_value" =>
    /\ Len(calls) >= 1
    /\ \A k \in 1..(Len(calls) - 1) :
         calls[k].err = ERROR_MORE_DATA /\ calls[k + 1].buf_len > calls[k].buf_len
    /\ calls[Len(calls)].err = ERROR_MORE_DATA =>
         /\ Len(calls) > 1
         /\ ~ret.ok
         /\ ret.err \notin {ERROR_SUCCESS, ERROR_MORE_DATA}

\* C24: while other actors create and delete children of the key between the
\* calls, every next() of an enum_keys() iterator returns one of three things:
\* Some(Ok(name)) with the name of a key that is a child of the iterator's key
\* at the call, Some(Err(e)) with the store's error and no name, or None.
C24_ConcurrentMutation ==
  \A i \in DOMAIN iters :
    RetIsNextOf(i, "EnumKeys::next") =>
      /\ iters[i].index \in Nat
      /\ \/ /\ ret.some /\ ret.err = ERROR_SUCCESS /\ ret.res = "ok"
            /\ HandleErr(IterHkey(i)) = ERROR_SUCCESS
            /\ \E k \in 1..Len(reg[KeyOf(IterHkey(i))].sub) :
                 reg[KeyOf(IterHkey(i))].sub[k] = ret.name
         \/ /\ ret.some /\ ret.err # ERROR_SUCCESS /\ ret.res = "err"
            /\ "name" \notin DOMAIN ret
            /\ ret.err = calls[1].err
         \/ /\ ~ret.some /\ ret.res = "none"
            /\ "name" \notin DOMAIN ret
\* a name was yielded by an iterator whose key's children changed since
\* enum_keys(), after a first name
C24_Witness ==
  \E i \in DOMAIN iters :
    /\ RetIsNextOf(i, "EnumKeys::next")
    /\ ~iters[i].clean
    /\ iters[i].prev.res = "ok"
    /\ ret.res = "ok"

\* C25: open_subkey through a valid handle fails with ERROR_FILE_NOT_FOUND when
\* the path names no existing key (some component of it is missing), and a
\* failed open or create returns no RegKey, leaves the handle table as it was
\* and leaves the tree as it was.
C25_FailureLeavesNothing ==
  [][ /\ ( /\ ret'.op = "open_subkey"
           /\ HandleErr(regkeys[ret'.from].hkey) = ERROR_SUCCESS
           /\ \E k \in 1..Len(ret'.path) :
                ~Exists(Extend(KeyOf(regkeys[ret'.from].hkey), SubSeq(ret'.path, 1, k))) )
         => ret'.err = ERROR_FILE_NOT_FOUND
      /\ ( /\ ret'.op \in {"open_subkey", "create_subkey"}
           /\ ret'.err # ERROR_SUCCESS )
         => /\ "obj" \notin DOMAIN ret'
            /\ regkeys' = regkeys
            /\ htab' = htab
            /\ reg' = reg
    ]_vars
\* an open failed on the second component of a path whose first one exists,
\* while a handle was free for it
C25_Witness ==
  /\ ret.op = "open_subkey"
  /\ ret.err = ERROR_FILE_NOT_FOUND
  /\ Len(ret.path) > 1
  /\ Exists(Extend(KeyOf(regkeys[ret.from].hkey), SubSeq(ret.path, 1, 1)))
  /\ FreeHandles # {}

\* C26: an iterator is created at index 0; a next() makes one store call, for
\* the iterator's key at the iterator's current index; the index grows by
\* exactly 1 when that call's status is success, also when the item returned is
\* the error of the type-tag check, and stays as it is on ERROR_NO_MORE_ITEMS
\* and on every other error; no other step changes the index, the next() of
\* another iterator on the same key included.
C26_IteratorPosition ==
  [][ \A i \in DOMAIN iters' :
        IF i \notin DOMAIN iters
        THEN iters'[i].index = 0
        ELSE IF ret'.op \in {"EnumKeys::next", "EnumValues::next"} /\ ret'.iter = i
             THEN /\ Len(calls') = 1
                  /\ calls'[1].index = iters[i].index
                  /\ calls'[1].hkey = regkeys[iters[i].key].hkey
                  /\ iters'[i].index =
                       IF calls'[1].err = ERROR_SUCCESS
                       THEN iters[i].index + 1 ELSE iters[i].index
                  /\ ret'.res = "decode" => iters'[i].index = iters[i].index + 1
                  /\ ret'.res \in {"none", "err"} => iters'[i].index = iters[i].index
             ELSE iters'[i].index = iters[i].index
    ]_vars
\* two iterators of one kind on the same key stand at different indices, the
\* one that moved last past an entry it returned as an error of the tag check,
\* the other after an error of the store that left it where it was
C26_Witness ==
  /\ DOMAIN iters = PosIters
  /\ \A i \in PosIters : iters[i].kind = "values" /\ iters[i].key = 1
  /\ ret.op = "EnumValues::next"
  /\ ret.res = "decode"
  /\ \E j \in PosIters \ {ret.iter} :
       /\ iters[j].last.res = "err"
       /\ iters[j].index < iters[ret.iter].index
\* decode(encode(v)) = v for every value written, of every type
CodecLaw ==
  \A T \in CodecTypes : \A v \in TypedValues[T] :
    from_reg_value(T, Encoded[T][v]) = DecodeOk(v)
\* C21: decoding the tag and bytes that encoding a value produced gives the
\* value back, for every type of the codec; and a get_value::<T> of a name
\* whose value in the store is what set_value wrote for a value v of type T
\* returns Ok(v).
C21_RoundTrip ==
  /\ CodecLaw
  /\ ( /\ ret.op = "get_value"
       /\ HandleErr(regkeys[ret.obj].hkey) = ERROR_SUCCESS
       /\ HasValue(KeyOf(regkeys[ret.obj].hkey), ret.name) )
     => \A v \in TypedValues[ret.type] :
          AsValue(ValueAt(KeyOf(regkeys[ret.obj].hkey), ret.name))
              = Stored(Encoded[ret.type][v])
            => ret.ok /\ ret.val = v

ReadOps ==
  {"query_info", "get_raw_value", "get_value", "open_subkey", "EnumKeys::next",
   "EnumValues::next"}
\* C27: a query_info, get_raw_value, get_value, open_subkey or next() step,
\* successful or failed, leaves every key, value name, type tag and byte of
\* the tree as it was; of the iterators only the one that next() was called on
\* changes, and it keeps its kind and its key.
C27_ReadsLeaveStore ==
  [][ ret'.op \in ReadOps =>
        /\ reg' = reg
        /\ DOMAIN iters' = DOMAIN iters
        /\ \A i \in DOMAIN iters :
             IF ret'.op \in {"EnumKeys::next", "EnumValues::next"} /\ ret'.iter = i
             THEN iters'[i].kind = iters[i].kind /\ iters'[i].key = iters[i].key
             ELSE iters'[i] = iters[i]
    ]_vars
\* a typed read failed on a value that is there, at a key that has a child and
\* an iterator on it
C27_Witness ==
  /\ ret.op = "get_value"
  /\ ~ret.ok
  /\ HandleErr(regkeys[ret.obj].hkey) = ERROR_SUCCESS
  /\ HasValue(KeyOf(regkeys[ret.obj].hkey), ret.name)
  /\ reg[KeyOf(regkeys[ret.obj].hkey)].sub # <<>>
  /\ iters # <<>>

\* C23: on a key that has not changed since the iterator was made, every
\* next() that returns an item, Ok or Err, has asked the store for a later
\* index than the next() before it; the key has finitely many entries, so the
\* caller who keeps calling comes to None after finitely many calls, whatever
\* the store answered on the way.
C23_IteratorsFinite ==
  \A i \in DOMAIN iters :
    ( /\ iters[i].clean
      /\ iters[i].prev.res # "new"
      /\ iters[i].last.res # "none" )
    => iters[i].last.q > iters[i].prev.q
====
